---- MODULE Spec2Model ----
(***************************************************************************)
(* Job-matching subsystem of the AI resume builder:                        *)
(*   app/job_matcher.py      _preprocess, _extract_top_keywords,           *)
(*                           calculate_match_score, get_missing_keywords   *)
(*   app/semantic_matcher.py _get_model, calculate_semantic_match,         *)
(*                           calculate_hybrid_match_score                  *)
(*                                                                         *)
(* Representation.                                                         *)
(*   A text is a sequence of one-character strings.                        *)
(*   A score is an integer number of 1/10000 of a percentage point, so     *)
(*   80.0 % is Pct(80) = 800000 and 0.01 % is 100.  A raw cosine is an     *)
(*   integer number of 1/100000, so 1.0 is 100000.  Python floats carry    *)
(*   more digits; what the code does to them (scaling, round(x, 2),        *)
(*   min(x, 100.0), the .1f format, the >= comparisons) is done here on    *)
(*   the fixed-point value.                                                *)
(***************************************************************************)
EXTENDS Integers, Sequences, FiniteSets

(***************************************************************************)
(* Bounds of the model.                                                    *)
(***************************************************************************)
\* longest word sequence from which an input text is built
MaxWords == 2
\* number of threads that call into the semantic engine in ConcSpec
NThreads == 2
\* cap on the number of SentenceTransformer constructions that raise
MaxFailedLoads == 2
\* longest string given to _preprocess in PreprocessSpec
MaxLen == 4

\* wrapped calls followed through the tracking wrappers
MaxRequests == 3
\* number of 0.005-point steps taken on each side of a tier boundary in ScoreSpec
ScoreWidth == 30

(***************************************************************************)
(* Characters.                                                             *)
(***************************************************************************)
LowerLetters == {"c", "l", "m", "o", "p", "t", "y"}
UpperLetters == {"C", "L", "M", "P", "Y"}
Digits == {"3"}
Whitespace == {" ", "\n", "\t"}
Punctuation == {"+", "!"}

\* str.lower() on one character
ToLower(c) ==
    CASE c = "C" -> "c"
      [] c = "L" -> "l"
      [] c = "M" -> "m"
      [] c = "P" -> "p"
      [] c = "Y" -> "y"
      [] OTHER -> c

\* code point of a character (orders the vocabulary)
CodePoint(c) ==
    CASE c = "\n" -> 10
      [] c = " " -> 32
      [] c = "!" -> 33
      [] c = "+" -> 43
      [] c = "3" -> 51
      [] c = "C" -> 67
      [] c = "L" -> 76
      [] c = "M" -> 77
      [] c = "P" -> 80
      [] c = "Y" -> 89
      [] c = "c" -> 99
      [] c = "l" -> 108
      [] c = "m" -> 109
      [] c = "o" -> 111
      [] c = "p" -> 112
      [] c = "t" -> 116
      [] c = "y" -> 121

\* the class [a-z0-9\s] of the first re.sub in _preprocess
KeptByPreprocess(c) == c \in LowerLetters \cup Digits \cup Whitespace

\* \w of the vectorizer's token_pattern
IsWordChar(c) == c \in LowerLetters \cup UpperLetters \cup Digits

(***************************************************************************)
(* job_matcher._preprocess                                                 *)
(***************************************************************************)
Lowered(text) == [i \in 1..Len(text) |-> ToLower(text[i])]

\* re.sub(r"[^a-z0-9\s]", " ", text)
StripNonAlnum(text) ==
    [i \in 1..Len(text) |-> IF KeptByPreprocess(text[i]) THEN text[i] ELSE " "]

\* re.sub(r"\s+", " ", text): every maximal run of whitespace becomes one space
RECURSIVE CollapseWhitespace(_)
CollapseWhitespace(text) ==
    IF text = <<>> THEN <<>>
    ELSE IF Head(text) \in Whitespace
         THEN IF Len(text) > 1 /\ text[2] \in Whitespace
              THEN CollapseWhitespace(Tail(text))
              ELSE <<" ">> \o CollapseWhitespace(Tail(text))
         ELSE <<Head(text)>> \o CollapseWhitespace(Tail(text))

\* str.strip()
RECURSIVE StripLeft(_)
StripLeft(text) ==
    IF text # <<>> /\ Head(text) \in Whitespace THEN StripLeft(Tail(text)) ELSE text

RECURSIVE StripRight(_)
StripRight(text) ==
    IF text # <<>> /\ text[Len(text)] \in Whitespace
    THEN StripRight(SubSeq(text, 1, Len(text) - 1))
    ELSE text

Strip(text) == StripRight(StripLeft(text))

\* _preprocess without the final strip()
PreprocessUnstripped(text) == CollapseWhitespace(StripNonAlnum(Lowered(text)))

_preprocess(text) == Strip(CollapseWhitespace(StripNonAlnum(Lowered(text))))

(***************************************************************************)
(* sklearn TfidfVectorizer(stop_words="english", ngram_range=(1, 2)) as    *)
(* the matcher configures it.  The analyzer lowercases, takes the tokens   *)
(* of token_pattern \b\w\w+\b, drops the stop words, and emits the         *)
(* unigrams followed by the bigrams of what is left.                       *)
(***************************************************************************)
\* the entries of the "english" stop list that the characters above can spell
StopWords ==
    { <<"t", "o">>, <<"m", "y">>, <<"c", "o">>, <<"t", "o", "o">>, <<"t", "o", "p">> }

RECURSIVE TokensFrom(_, _)
TokensFrom(text, cur) ==
    LET emit == IF Len(cur) >= 2 THEN <<cur>> ELSE <<>>
    IN  IF text = <<>> THEN emit
        ELSE IF IsWordChar(Head(text))
             THEN TokensFrom(Tail(text), Append(cur, Head(text)))
             ELSE emit \o TokensFrom(Tail(text), <<>>)

Tokenize(text) == TokensFrom(text, <<>>)

NotStopWord(tok) == tok \notin StopWords

Bigrams(toks) ==
    [i \in 1..(IF Len(toks) = 0 THEN 0 ELSE Len(toks) - 1) |->
        toks[i] \o <<" ">> \o toks[i + 1]]

\* build_analyzer(): the term occurrences of one document
Analyze(doc) ==
    LET toks == SelectSeq(Tokenize(Lowered(doc)), NotStopWord)
    IN  toks \o Bigrams(toks)

TermCount(term, occ) == Cardinality({i \in DOMAIN occ : occ[i] = term})

TermsOf(occ) == {occ[i] : i \in DOMAIN occ}

\* vocabulary order: terms sorted as Python strings
RECURSIVE TermLess(_, _)
TermLess(a, b) ==
    IF a = <<>> THEN b # <<>>
    ELSE IF b = <<>> THEN FALSE
    ELSE IF Head(a) = Head(b) THEN TermLess(Tail(a), Tail(b))
    ELSE CodePoint(Head(a)) < CodePoint(Head(b))

RECURSIVE SortTerms(_)
SortTerms(terms) ==
    IF terms = {} THEN <<>>
    ELSE LET first == CHOOSE a \in terms : \A b \in terms \ {a} : TermLess(a, b)
         IN  <<first>> \o SortTerms(terms \ {first})

\* CountVectorizer._limit_features: the max_features terms of highest corpus
\* count, earlier vocabulary position first among equal counts
LimitFeatures(terms, occs, max_features) ==
    LET tfs(t) == TermCount(t, occs[1]) + TermCount(t, occs[2])
        Before(a, b) == tfs(a) > tfs(b) \/ (tfs(a) = tfs(b) /\ TermLess(a, b))
    IN  IF Cardinality(terms) <= max_features THEN terms
        ELSE {t \in terms : Cardinality({u \in terms : Before(u, t)}) < max_features}

RECURSIVE SumOver(_, _)
SumOver(f, S) ==
    IF S = {} THEN 0
    ELSE LET x == CHOOSE y \in S : TRUE IN f[x] + SumOver(f, S \ {x})

\* nearest integer to the square root of n
RECURSIVE SqrtBetween(_, _, _)
SqrtBetween(n, lo, hi) ==
    IF lo >= hi THEN lo
    ELSE LET mid == (lo + hi + 1) \div 2
         IN  IF mid * mid - mid < n THEN SqrtBetween(n, mid, hi)
             ELSE SqrtBetween(n, lo, mid - 1)

Sqrt(n) == IF n = 0 THEN 0 ELSE SqrtBetween(n, 0, 46000)

\* natural logarithm of a term count, in 1/1000
LnMilli(n) == <<0, 693, 1099, 1386, 1609, 1792, 1946, 2079>>[n]

\* TfidfTransformer(smooth_idf=True) over the two documents:
\* idf = ln((1 + 2) / (1 + df)) + 1, in 1/1000
IdfMilli(df) == IF df = 2 THEN 1000 ELSE 1405

\* term frequency in 1/1000: the count, or 1 + ln(count) under sublinear_tf
TfMilli(count, sublinear_tf) ==
    IF count = 0 THEN 0
    ELSE IF sublinear_tf THEN 1000 + LnMilli(count)
    ELSE 1000 * count

\* Euclidean norm of one row
Norm(row) == Sqrt(SumOver([t \in DOMAIN row |-> row[t] * row[t]], DOMAIN row))

Scaled(row, norm) ==
    [t \in DOMAIN row |-> IF norm = 0 THEN 0 ELSE (row[t] * 10000) \div norm]

\* L2-normalise one row; weights of the result are in 1/10000
Normalize(row) == Scaled(row, Norm(row))

\* number of the two documents that hold the term
DocFreq(t, occs) ==
    (IF TermCount(t, occs[1]) > 0 THEN 1 ELSE 0)
    + (IF TermCount(t, occs[2]) > 0 THEN 1 ELSE 0)

\* the tf-idf row of document d before normalisation, in 1/1000
RawRow(d, occs, vocab, sublinear_tf) ==
    [t \in vocab |->
        (TfMilli(TermCount(t, occs[d]), sublinear_tf) * IdfMilli(DocFreq(t, occs)))
            \div 1000]

\* the fitted vectorizer over the term occurrences of the two documents;
\* CountVectorizer raises ValueError("empty vocabulary; ...") when no term is left
FitOccurrences(occs, all, max_features, sublinear_tf) ==
    IF all = {}
    THEN [ValueError |-> TRUE, feature_names |-> <<>>, matrix |-> <<>>]
    ELSE [ValueError |-> FALSE,
          feature_names |-> SortTerms(LimitFeatures(all, occs, max_features)),
          matrix |->
            <<Normalize(RawRow(1, occs, LimitFeatures(all, occs, max_features),
                               sublinear_tf)),
              Normalize(RawRow(2, occs, LimitFeatures(all, occs, max_features),
                               sublinear_tf))>>]

AllTerms(occs) == TermsOf(occs[1]) \cup TermsOf(occs[2])

FitAnalyzed(occs, max_features, sublinear_tf) ==
    FitOccurrences(occs, AllTerms(occs), max_features, sublinear_tf)

\* vectorizer.fit_transform([resume, job]) with get_feature_names_out():
\* ValueError on an empty vocabulary, else the sorted feature names and the
\* two normalised tf-idf rows
fit_transform(docs, max_features, sublinear_tf) ==
    FitAnalyzed(<<Analyze(docs[1]), Analyze(docs[2])>>, max_features, sublinear_tf)

Dot(x, y) == SumOver([t \in DOMAIN x |-> x[t] * y[t]], DOMAIN x)

CosineOf(dot, nx, ny) ==
    IF nx = 0 \/ ny = 0 THEN 0 ELSE (((dot * 10) \div nx) * 10000) \div ny

\* sklearn cosine_similarity of two rows, in 1/100000: both rows are
\* normalised again and multiplied
cosine_similarity(x, y) == CosineOf(Dot(x, y), Norm(x), Norm(y))

(***************************************************************************)
(* Numbers.                                                                *)
(***************************************************************************)
\* n percentage points as a score
Pct(n) == n * 10000

Min(a, b) == IF a <= b THEN a ELSE b

Max(a, b) == IF a >= b THEN a ELSE b

\* x rounded to a multiple of unit, ties to the even multiple
RoundHalfEven(x, unit) ==
    LET q == x \div unit
        r == x % unit
    IN  IF 2 * r > unit \/ (2 * r = unit /\ q % 2 = 1)
        THEN (q + 1) * unit
        ELSE q * unit

\* round(x, 2)
Round2(x) == RoundHalfEven(x, 100)

\* the number printed by the format {x:.1f}
Format1f(x) == RoundHalfEven(x, 1000)

(***************************************************************************)
(* job_matcher._extract_top_keywords                                       *)
(***************************************************************************)
\* the keys left in the order of names, not sorted
SortedByName(names, weights) == names

\* the whole list, not cut at n
NotCut(s, n) == s

\* sorted(weights, key=weights.get, reverse=True) over the keys taken in the
\* order of names: descending weight, equal weights in their original order
RECURSIVE SortedByWeight(_, _)
SortedByWeight(names, weights) ==
    IF names = <<>> THEN <<>>
    ELSE LET best == CHOOSE i \in DOMAIN names :
                        \A k \in DOMAIN names :
                            \/ weights[names[i]] > weights[names[k]]
                            \/ (weights[names[i]] = weights[names[k]] /\ i <= k)
             rest == [k \in 1..(Len(names) - 1) |->
                        IF k < best THEN names[k] ELSE names[k + 1]]
         IN  <<names[best]>> \o SortedByWeight(rest, weights)

\* s[:n] for a count n
FirstN(s, n) == SubSeq(s, 1, Min(n, Len(s)))

\* the loop over feature_names and the sort, given the fitted vectorizer
CommonKeywords(names, resume_scores, job_scores, top_n) ==
    FirstN(SortedByWeight(names,
                          [word \in TermsOf(names) |->
                              resume_scores[word] + job_scores[word]]),
           top_n)

IsCommon(fit, word) == fit.matrix[1][word] > 0 /\ fit.matrix[2][word] > 0

RECURSIVE CommonNames(_, _)
CommonNames(fit, names) ==
    IF names = <<>> THEN <<>>
    ELSE (IF IsCommon(fit, Head(names)) THEN <<Head(names)>> ELSE <<>>)
         \o CommonNames(fit, Tail(names))

TopKeywordsOfFit(fit, top_n) ==
    IF fit.ValueError THEN [ValueError |-> TRUE, value |-> <<>>]
    ELSE [ValueError |-> FALSE,
          value |-> CommonKeywords(CommonNames(fit, fit.feature_names),
                                   fit.matrix[1], fit.matrix[2], top_n)]

\* [ValueError, value]: the exception of fit_transform is not caught here
_extract_top_keywords(resume_text, job_description, top_n) ==
    TopKeywordsOfFit(fit_transform(<<resume_text, job_description>>, 500, FALSE),
                     top_n)

(***************************************************************************)
(* job_matcher.calculate_match_score                                       *)
(***************************************************************************)
\* min(score, 100.0)
CapAt100(score) == Min(score, Pct(100))

\* the similarity scaled by 1000 instead of 100 and never capped
MatchScoreUncapped(similarity) == Round2(similarity * 100)

\* the similarity rounded and capped but not multiplied by 100
MatchScoreUnscaled(similarity) == CapAt100(Round2(similarity \div 10))

\* round(float(similarity) * 100, 2), then the cap
MatchScoreOf(similarity) == CapAt100(Round2(similarity * 10))

\* the tiers with a strict comparison at 80
MatchAnalysisStrict(score) ==
    IF score > Pct(80) THEN
        <<"Excellent match (", score,
          "%)! Your resume aligns strongly with the job requirements. Fine-tune specific metrics and achievements.">>
    ELSE IF score >= Pct(60) THEN
        <<"Good match (", score,
          "%). Your resume covers many requirements. Consider adding missing keywords and quantifiable results.">>
    ELSE IF score >= Pct(40) THEN
        <<"Moderate match (", score,
          "%). There are notable gaps. Focus on incorporating more job-specific terminology and relevant experience.">>
    ELSE
        <<"Low match (", score,
          "%). Significant gaps exist between your resume and the job description. Consider tailoring your resume specifically for this role.">>

MatchAnalysis(score) ==
    IF score >= Pct(80) THEN
        <<"Excellent match (", score,
          "%)! Your resume aligns strongly with the job requirements. Fine-tune specific metrics and achievements.">>
    ELSE IF score >= Pct(60) THEN
        <<"Good match (", score,
          "%). Your resume covers many requirements. Consider adding missing keywords and quantifiable results.">>
    ELSE IF score >= Pct(40) THEN
        <<"Moderate match (", score,
          "%). There are notable gaps. Focus on incorporating more job-specific terminology and relevant experience.">>
    ELSE
        <<"Low match (", score,
          "%). Significant gaps exist between your resume and the job description. Consider tailoring your resume specifically for this role.">>

\* the statements after the scoring fit_transform returned
MatchScored(score, top_keywords) ==
    IF top_keywords.ValueError THEN
        [raised |-> TRUE, fits |-> 2,
         ret |-> [score |-> 0, top_keywords |-> <<>>, analysis |-> <<>>]]
    ELSE
        [raised |-> FALSE, fits |-> 2,
         ret |-> [score |-> score, top_keywords |-> top_keywords.value,
                  analysis |-> MatchAnalysis(score)]]

\* the try block and what follows it
MatchFitted(fit, clean_resume, clean_job) ==
    IF fit.ValueError THEN
        [raised |-> FALSE, fits |-> 1,
         ret |-> [score |-> 0, top_keywords |-> <<>>,
                  analysis |-> <<"Could not extract meaningful content for comparison.">>]]
    ELSE MatchScored(MatchScoreOf(cosine_similarity(fit.matrix[1], fit.matrix[2])),
                     _extract_top_keywords(clean_resume, clean_job, 10))

MatchPreprocessed(clean_resume, clean_job) ==
    MatchFitted(fit_transform(<<clean_resume, clean_job>>, 1000, TRUE),
                clean_resume, clean_job)

\* One run of calculate_match_score: whether it raised, the dict it returned,
\* and how many times it called fit_transform (its own vectorizer and the one
\* of _extract_top_keywords).
MatchScoreRun(resume_text, job_description) ==
    IF resume_text = <<>> \/ job_description = <<>> THEN
        [raised |-> FALSE, fits |-> 0,
         ret |-> [score |-> 0, top_keywords |-> <<>>,
                  analysis |-> <<"Insufficient text provided for analysis.">>]]
    ELSE MatchPreprocessed(_preprocess(resume_text), _preprocess(job_description))

calculate_match_score(resume_text, job_description) ==
    MatchScoreRun(resume_text, job_description).ret

(***************************************************************************)
(* job_matcher.get_missing_keywords                                        *)
(***************************************************************************)
\* default of the parameter top_n
DefaultTopN == 10

\* the loop over feature_names: zero weight in the resume row, positive in
\* the job row
RECURSIVE MissingNames(_, _)
MissingNames(fit, names) ==
    IF names = <<>> THEN <<>>
    ELSE (IF fit.matrix[1][Head(names)] = 0 /\ fit.matrix[2][Head(names)] > 0
          THEN <<Head(names)>> ELSE <<>>)
         \o MissingNames(fit, Tail(names))

\* the ValueError of fit_transform not caught
MissingFittedUncaught(fit, top_n) ==
    IF fit.ValueError THEN [raised |-> TRUE, fits |-> 1, ret |-> <<>>]
    ELSE [raised |-> FALSE, fits |-> 1,
          ret |-> FirstN(SortedByWeight(MissingNames(fit, fit.feature_names),
                                        fit.matrix[2]),
                         top_n)]

\* the try block and what follows it: ValueError gives the empty list
MissingFitted(fit, top_n) ==
    IF fit.ValueError THEN [raised |-> FALSE, fits |-> 1, ret |-> <<>>]
    ELSE [raised |-> FALSE, fits |-> 1,
          ret |-> FirstN(SortedByWeight(MissingNames(fit, fit.feature_names),
                                        fit.matrix[2]),
                         top_n)]

\* one run of get_missing_keywords: whether it raised, the list it returned
\* and how many times it called fit_transform
MissingKeywordsRun(resume_text, job_description, top_n) ==
    MissingFitted(fit_transform(<<_preprocess(resume_text),
                                  _preprocess(job_description)>>, 500, FALSE),
                  top_n)

get_missing_keywords(resume_text, job_description, top_n) ==
    MissingKeywordsRun(resume_text, job_description, top_n).ret

(***************************************************************************)
(* Input texts.                                                            *)
(***************************************************************************)
Words == { <<"p", "y">>, <<"m", "l">> }

RECURSIVE WordSeqs(_)
WordSeqs(n) ==
    IF n = 0 THEN {<<>>}
    ELSE LET shorter == WordSeqs(n - 1)
         IN  shorter \cup {Append(ws, w) : ws \in shorter, w \in Words}

RECURSIVE Join(_)
Join(ws) ==
    IF ws = <<>> THEN <<>>
    ELSE IF Len(ws) = 1 THEN ws[1]
    ELSE ws[1] \o <<" ">> \o Join(Tail(ws))

\* a blank text, a stop word alone, a one-letter word with punctuation,
\* capitals with punctuation, and leading whitespace with a trailing stop word
SpecialTexts ==
    { <<" ">>,
      <<"t", "o">>,
      <<"C", "+", "+">>,
      <<"P", "y", "+", "M", "L", "!">>,
      <<"\n", "p", "y", " ", "t", "o">> }

\* the empty text is Join(<<>>)
Texts == {Join(ws) : ws \in WordSeqs(MaxWords)} \cup SpecialTexts

\* two texts of six different words, eleven terms each; the second repeats
\* its first word
LongTexts ==
    { Join(<< <<"p", "y">>, <<"m", "l">>, <<"c", "p", "p">>, <<"p", "l">>,
              <<"c", "t">>, <<"t", "y">> >>),
      Join(<< <<"p", "y">>, <<"p", "y">>, <<"m", "l">>, <<"c", "p", "p">>,
              <<"p", "l">>, <<"c", "t">>, <<"t", "y">> >>) }

\* the inputs of the keyword functions in KeywordSpec: those of Spec, the long
\* ones and one without a letter or digit
KeywordTexts == Texts \cup LongTexts \cup { <<"+", "!">> }

\* values of the parameter top_n (a count, so not negative)
TopNs == {1, 2, DefaultTopN}

\* the inputs of the concurrent callers
ConcTexts == { <<>>, <<"p", "y">>, <<"m", "l">> }

(***************************************************************************)
(* semantic_matcher.calculate_semantic_match                               *)
(***************************************************************************)
\* Raw cosines the embedding backend is taken to produce (1/100000): a
\* negative one, two in between, and one a float noise step above 1.
Sims == {-2500, 41230, 66660, 100001}

\* cosine_similarity([embeddings[0]], [embeddings[1]])[0][0] after
\* model.encode([resume_text, job_description]): equal texts get equal
\* embeddings, so their cosine is 1 up to float noise
EncodeSims(resume_text, job_description) ==
    IF resume_text = job_description THEN {100000, 100001} ELSE Sims

\* the dict returned for a raw cosine
SemanticResult(similarity) ==
    [semantic_score |-> Min(similarity * 10, Pct(100)),
     embedding_distance |-> 100000 - similarity]

\* the dict returned when an input is empty
SemanticEmpty == [semantic_score |-> 0, embedding_distance |-> 100000]

(***************************************************************************)
(* semantic_matcher.calculate_hybrid_match_score                           *)
(***************************************************************************)
\* the weights 0.6 and 0.4, in tenths
SemanticWeight == 6
KeywordWeight == 4

\* the two weights exchanged
HybridScoreSwapped(semantic_score, keyword_score) ==
    (semantic_score * KeywordWeight + keyword_score * SemanticWeight) \div 10

\* the two scores added with no weights
HybridScoreUnweighted(semantic_score, keyword_score) ==
    semantic_score + keyword_score

\* semantic['semantic_score'] * 0.6 + tfidf['score'] * 0.4
HybridScore(semantic_score, keyword_score) ==
    (semantic_score * SemanticWeight + keyword_score * KeywordWeight) \div 10

HybridAnalysis(hybrid_score, semantic_score, keyword_score) ==
    IF hybrid_score >= Pct(80) THEN
        <<"Excellent match (", Format1f(hybrid_score),
          "%)! Strong semantic alignment (semantic: ", Format1f(semantic_score),
          "%, keywords: ", Format1f(keyword_score),
          "%). Your resume aligns well with the job requirements.">>
    ELSE IF hybrid_score >= Pct(60) THEN
        <<"Good match (", Format1f(hybrid_score),
          "%). Semantic similarity: ", Format1f(semantic_score),
          "%, Keyword overlap: ", Format1f(keyword_score),
          "%. Consider adding more relevant keywords to improve further.">>
    ELSE IF hybrid_score >= Pct(40) THEN
        <<"Moderate match (", Format1f(hybrid_score),
          "%). Semantic: ", Format1f(semantic_score),
          "%, Keywords: ", Format1f(keyword_score),
          "%. Focus on incorporating more job-specific terminology and relevant experience.">>
    ELSE
        <<"Low match (", Format1f(hybrid_score),
          "%). Significant gaps exist. Consider tailoring your resume more closely to the job description with relevant keywords and context.">>

\* the dict built from the two engines' results
HybridResult(semantic, tfidf) ==
    LET hybrid_score == HybridScore(semantic.semantic_score, tfidf.score)
    IN  [score |-> Round2(hybrid_score),
         semantic_score |-> Round2(semantic.semantic_score),
         keyword_score |-> Round2(tfidf.score),
         top_keywords |-> tfidf.top_keywords,
         analysis |-> HybridAnalysis(hybrid_score, semantic.semantic_score, tfidf.score)]

(***************************************************************************)
(* State.                                                                  *)
(***************************************************************************)
VARIABLES
    _STOP_ADDITIONS, \* the module global of job_matcher, a set of words
    _model,       \* the module global: 0 is None, k > 0 the k-th model built
    invoked,      \* history: constructor invocations so far
    constructed,  \* history: constructor invocations that returned a model
    stores,       \* history: assignments to _model so far
    pc,           \* per thread: where its call stands
    call,         \* per thread: the function called and its two arguments
    model,        \* per thread: local `model` of calculate_semantic_match
    fresh,        \* per thread: the constructed object not yet stored in _model
    semantic,     \* per thread: result of calculate_semantic_match, <<>> if none
    tfidf,        \* per thread: result of calculate_match_score, <<>> if none
    hybrid,       \* per thread: result of calculate_hybrid_match_score, <<>> if none
    missing,      \* per thread: result of get_missing_keywords, <<>> if none
    raised,       \* per thread: the call ended by an exception
    trace,        \* per thread: history of what the call in progress did
    embedded,     \* history: the cosine the backend gave for each pair encoded
    outputs,      \* history: the outcome of the first call made with each input
    clean,        \* the call of _preprocess followed alone: its input and output
    connecting,   \* cache.py is being imported: its try block has not run yet
    redis_client, \* the module global of cache.py: "None" or "Redis"
    store,        \* what the Redis server holds: key -> value and time to live
    cached_call,  \* the last call through a @cached wrapper and what it did
    active_requests,        \* the gauge of monitoring.py
    api_requests_total,     \* the counter of track_api_call, by status
    api_latency_seconds,    \* the histogram of track_api_call: observations made
    gemini_calls_total,     \* the counter of track_gemini_call, by status
    gemini_latency_seconds, \* the histogram of track_gemini_call: observations made
    tracked,      \* per thread: its call through a tracking wrapper, last or in flight
    gemini,       \* the call of _call_gemini followed: where it stands, what it did
    handled       \* the last request to generate_resume and its response

\* the variables of the matchers
matcher == <<_STOP_ADDITIONS, _model, invoked, constructed, stores, pc, call, model,
             fresh, semantic, tfidf, hybrid, missing, raised, trace, embedded,
             outputs>>

\* the variables of the cache
cache == <<connecting, redis_client, store, cached_call>>

\* the variables of the metrics
monitor == <<active_requests, api_requests_total, api_latency_seconds,
             gemini_calls_total, gemini_latency_seconds, tracked>>

\* the variables of agent.py and of the endpoint of main.py
agent == <<gemini, handled>>

\* the variables the matchers' calls leave alone
rest == <<clean, cache, monitor, agent>>

vars == <<matcher, rest>>

\* the literal bound to _STOP_ADDITIONS when job_matcher is imported
StopAdditions ==
    {"etc", "using", "including", "also", "well", "able", "will",
     "working", "work", "experience", "year", "years", "job"}

\* a mapping with no key
Empty == [k \in {} |-> 0]

Threads == 1..NThreads

NoCall == [fn |-> "none", resume_text |-> <<>>, job_description |-> <<>>]
\* calls made so far by the call in progress: to calculate_semantic_match, to
\* calculate_match_score, to the model constructor, to model.encode and to
\* fit_transform
NoTrace == [semantic_calls |-> 0, tfidf_calls |-> 0, loads |-> 0, encodes |-> 0,
            fits |-> 0]

Init ==
    /\ _STOP_ADDITIONS = StopAdditions
    /\ _model = 0
    /\ invoked = 0
    /\ constructed = 0
    /\ stores = 0
    /\ pc = [t \in Threads |-> "idle"]
    /\ call = [t \in Threads |-> NoCall]
    /\ model = [t \in Threads |-> 0]
    /\ fresh = [t \in Threads |-> 0]
    /\ semantic = [t \in Threads |-> <<>>]
    /\ tfidf = [t \in Threads |-> <<>>]
    /\ hybrid = [t \in Threads |-> <<>>]
    /\ missing = [t \in Threads |-> <<>>]
    /\ raised = [t \in Threads |-> FALSE]
    /\ trace = [t \in Threads |-> NoTrace]
    /\ embedded = Empty
    /\ outputs = Empty
    /\ clean = <<>>
    /\ connecting = TRUE
    /\ redis_client = "None"
    /\ store = Empty
    /\ cached_call = <<>>
    /\ active_requests = 0
    /\ api_requests_total = [status \in {"success", "error"} |-> 0]
    /\ api_latency_seconds = 0
    /\ gemini_calls_total = [status \in {"success", "error"} |-> 0]
    /\ gemini_latency_seconds = 0
    /\ tracked = [t \in Threads |->
                     [at |-> "idle", wrapper |-> "none", outcome |-> <<>>,
                      status |-> "success", observed |-> 0, counted |-> <<>>,
                      incs |-> 0, decs |-> 0, returned |-> <<>>, reraised |-> <<>>]]
    /\ gemini = [at |-> "idle", attempt |-> 0, attempts |-> <<>>, slept |-> 0,
                 ret |-> <<>>, raised |-> <<>>]
    /\ handled = <<>>

Ready(t) == pc[t] = "idle"

\* a caller enters fn with fresh locals
Enter(t, fn, resume_text, job_description, at) ==
    /\ Ready(t)
    /\ pc' = [pc EXCEPT ![t] = at]
    /\ call' = [call EXCEPT ![t] = [fn |-> fn, resume_text |-> resume_text,
                                    job_description |-> job_description]]
    /\ model' = [model EXCEPT ![t] = 0]
    /\ fresh' = [fresh EXCEPT ![t] = 0]
    /\ semantic' = [semantic EXCEPT ![t] = <<>>]
    /\ tfidf' = [tfidf EXCEPT ![t] = <<>>]
    /\ hybrid' = [hybrid EXCEPT ![t] = <<>>]
    /\ raised' = [raised EXCEPT ![t] = FALSE]
    /\ trace' = [trace EXCEPT ![t] = [NoTrace EXCEPT !.semantic_calls = 1]]
    /\ missing' = [missing EXCEPT ![t] = <<>>]
    /\ UNCHANGED <<rest, _STOP_ADDITIONS, embedded, outputs, _model, invoked,
                   constructed, stores>>

(***************************************************************************)
(* Calls.                                                                  *)
(***************************************************************************)
\* a run of calculate_match_score ends the call of thread t
MatchScoreReturns(t, run) ==
    /\ pc' = [pc EXCEPT ![t] = "done"]
    /\ tfidf' = [tfidf EXCEPT ![t] = IF run.raised THEN <<>> ELSE <<run.ret>>]
    /\ raised' = [raised EXCEPT ![t] = run.raised]
    /\ trace' = [trace EXCEPT ![t].fits = run.fits, ![t].tfidf_calls = @ + 1]

\* calculate_match_score(resume_text, job_description), start to return
CallMatchScore(t, resume_text, job_description) ==
    /\ Ready(t)
    /\ call' = [call EXCEPT ![t] = [fn |-> "calculate_match_score",
                                    resume_text |-> resume_text,
                                    job_description |-> job_description]]
    /\ MatchScoreReturns(t, MatchScoreRun(resume_text, job_description))
    /\ UNCHANGED <<rest, _STOP_ADDITIONS, embedded, outputs, missing,
                   _model, invoked, constructed, stores, model, fresh, semantic,
                   hybrid>>

\* entry of calculate_semantic_match
CallSemanticMatch(t, resume_text, job_description) ==
    Enter(t, "calculate_semantic_match", resume_text, job_description, "semantic_check")

\* entry of calculate_hybrid_match_score: its first statement calls
\* calculate_semantic_match
CallHybridMatchScore(t, resume_text, job_description) ==
    Enter(t, "calculate_hybrid_match_score", resume_text, job_description,
          "semantic_check")

\* where control goes when calculate_semantic_match returns
AfterSemantic(t) ==
    IF call[t].fn = "calculate_hybrid_match_score" THEN "tfidf_match" ELSE "done"

\* calculate_semantic_match: `if not resume_text or not job_description`
SemanticCheck(t) ==
    /\ pc[t] = "semantic_check"
    /\ IF call[t].resume_text = <<>> \/ call[t].job_description = <<>>
       THEN /\ semantic' = [semantic EXCEPT ![t] = <<SemanticEmpty>>]
            /\ pc' = [pc EXCEPT ![t] = AfterSemantic(t)]
       ELSE /\ pc' = [pc EXCEPT ![t] = "get_model"]
            /\ UNCHANGED semantic
    /\ UNCHANGED <<rest, _STOP_ADDITIONS, embedded, outputs, missing,
                   _model, invoked, constructed, stores, call, model, fresh,
                   tfidf, hybrid, raised, trace>>

\* _get_model without its test: the model is built on every call
ModelMissingUntested(global) == TRUE

\* whether _get_model goes on to build the model: `if _model is None`
ModelMissing(global) == global = 0

\* _get_model: the test of the global
GetModel(t) ==
    /\ pc[t] = "get_model"
    /\ pc' = [pc EXCEPT ![t] = IF ModelMissing(_model) THEN "construct"
                               ELSE "return_model"]
    /\ UNCHANGED <<rest, _STOP_ADDITIONS, embedded, outputs, missing,
                   _model, invoked, constructed, stores, call, model, fresh,
                   semantic, tfidf, hybrid, raised, trace>>

\* _get_model: SentenceTransformer('all-MiniLM-L6-v2') returns a model
ConstructModel(t) ==
    /\ pc[t] = "construct"
    /\ invoked' = invoked + 1
    /\ constructed' = constructed + 1
    /\ fresh' = [fresh EXCEPT ![t] = constructed + 1]
    /\ trace' = [trace EXCEPT ![t].loads = @ + 1]
    /\ pc' = [pc EXCEPT ![t] = "store_model"]
    /\ UNCHANGED <<rest, _STOP_ADDITIONS, embedded, outputs, missing,
                   _model, stores, call, model, semantic, tfidf, hybrid, raised>>

\* the exception of the constructor caught and the empty-input result
\* returned in its place
ConstructRaisesSwallowed(t) ==
    /\ pc[t] = "construct"
    /\ invoked - constructed < MaxFailedLoads
    /\ invoked' = invoked + 1
    /\ trace' = [trace EXCEPT ![t].loads = @ + 1]
    /\ semantic' = [semantic EXCEPT ![t] = <<SemanticEmpty>>]
    /\ pc' = [pc EXCEPT ![t] = AfterSemantic(t)]
    /\ UNCHANGED <<rest, _STOP_ADDITIONS, embedded, outputs, missing, _model,
                   constructed, stores, call, model, fresh, tfidf, hybrid, raised>>

\* _get_model: SentenceTransformer('all-MiniLM-L6-v2') raises; nothing
\* catches it, so the call in progress ends with the exception
ConstructRaises(t) ==
    /\ pc[t] = "construct"
    /\ invoked - constructed < MaxFailedLoads
    /\ invoked' = invoked + 1
    /\ trace' = [trace EXCEPT ![t].loads = @ + 1]
    /\ raised' = [raised EXCEPT ![t] = TRUE]
    /\ pc' = [pc EXCEPT ![t] = "done"]
    /\ UNCHANGED <<rest, _STOP_ADDITIONS, embedded, outputs, missing,
                   _model, constructed, stores, call, model, fresh, semantic,
                   tfidf, hybrid>>

\* _get_model: the assignment `_model = ...`
StoreModel(t) ==
    /\ pc[t] = "store_model"
    /\ _model' = fresh[t]
    /\ stores' = stores + 1
    /\ pc' = [pc EXCEPT ![t] = "return_model"]
    /\ UNCHANGED <<rest, _STOP_ADDITIONS, embedded, outputs, missing,
                   invoked, constructed, call, model, fresh, semantic, tfidf,
                   hybrid, raised, trace>>

\* _get_model: `return _model`, bound to the caller's `model`
ReturnModel(t) ==
    /\ pc[t] = "return_model"
    /\ model' = [model EXCEPT ![t] = _model]
    /\ pc' = [pc EXCEPT ![t] = "encode"]
    /\ UNCHANGED <<rest, _STOP_ADDITIONS, embedded, outputs, missing,
                   _model, invoked, constructed, stores, call, fresh, semantic,
                   tfidf, hybrid, raised, trace>>

\* a backend that gives a new cosine each time, whatever it gave before
BackendSimsUnseeded(resume_text, job_description, memo) ==
    EncodeSims(resume_text, job_description)

\* the cosines the backend can give for a pair: the model is in inference
\* mode, so a pair encoded before gets the cosine it got then
BackendSims(resume_text, job_description, memo) ==
    IF <<resume_text, job_description>> \in DOMAIN memo
    THEN {memo[<<resume_text, job_description>>]}
    ELSE EncodeSims(resume_text, job_description)

\* calculate_semantic_match: model.encode, cosine_similarity and the return
Encode(t) ==
    /\ pc[t] = "encode"
    /\ \E similarity \in BackendSims(call[t].resume_text, call[t].job_description,
                                     embedded) :
          semantic' = [semantic EXCEPT ![t] = <<SemanticResult(similarity)>>]
    /\ trace' = [trace EXCEPT ![t].encodes = @ + 1]
    /\ pc' = [pc EXCEPT ![t] = AfterSemantic(t)]
    /\ UNCHANGED <<rest, _STOP_ADDITIONS, embedded, outputs, missing,
                   _model, invoked, constructed, stores, call, model, fresh,
                   tfidf, hybrid, raised>>

\* the same step for a pair not encoded before, the cosine being kept in the
\* history; one pair is followed in this way
EncodeFollowed(t) ==
    /\ pc[t] = "encode"
    /\ embedded = Empty
    /\ \E similarity \in EncodeSims(call[t].resume_text, call[t].job_description) :
          /\ semantic' = [semantic EXCEPT ![t] = <<SemanticResult(similarity)>>]
          /\ embedded' = [pair \in {<<call[t].resume_text, call[t].job_description>>}
                            |-> similarity]
    /\ trace' = [trace EXCEPT ![t].encodes = @ + 1]
    /\ pc' = [pc EXCEPT ![t] = AfterSemantic(t)]
    /\ UNCHANGED <<rest, _STOP_ADDITIONS, outputs, missing, _model, invoked,
                   constructed, stores, call, model, fresh, tfidf, hybrid, raised>>

\* the hybrid dict, when tfidf_match returned
HybridReturns(t, run) ==
    hybrid' = [hybrid EXCEPT ![t] =
                 IF run.raised THEN <<>>
                 ELSE <<HybridResult(semantic[t][1], run.ret)>>]

\* calculate_hybrid_match_score after calculate_semantic_match returned:
\* tfidf_match, the weighted score, the analysis and the return
TfidfMatch(t) ==
    /\ pc[t] = "tfidf_match"
    /\ MatchScoreReturns(t, MatchScoreRun(call[t].resume_text, call[t].job_description))
    /\ HybridReturns(t, MatchScoreRun(call[t].resume_text, call[t].job_description))
    /\ UNCHANGED <<rest, _STOP_ADDITIONS, embedded, outputs, missing,
                   _model, invoked, constructed, stores, call, model, fresh,
                   semantic>>

\* the caller has taken the outcome of its call; the frame is gone
Finish(t) ==
    /\ pc[t] = "done"
    /\ pc' = [pc EXCEPT ![t] = "idle"]
    /\ call' = [call EXCEPT ![t] = NoCall]
    /\ model' = [model EXCEPT ![t] = 0]
    /\ fresh' = [fresh EXCEPT ![t] = 0]
    /\ semantic' = [semantic EXCEPT ![t] = <<>>]
    /\ tfidf' = [tfidf EXCEPT ![t] = <<>>]
    /\ hybrid' = [hybrid EXCEPT ![t] = <<>>]
    /\ raised' = [raised EXCEPT ![t] = FALSE]
    /\ trace' = [trace EXCEPT ![t] = NoTrace]
    /\ missing' = [missing EXCEPT ![t] = <<>>]
    /\ UNCHANGED <<rest, _STOP_ADDITIONS, embedded, outputs, _model, invoked,
                   constructed, stores>>

\* the steps inside calculate_semantic_match
SemanticSteps(t) ==
    \/ SemanticCheck(t)
    \/ GetModel(t)
    \/ ConstructModel(t)
    \/ ConstructRaises(t)
    \/ StoreModel(t)
    \/ ReturnModel(t)
    \/ Encode(t)

(***************************************************************************)
(* Spec: one caller makes any series of calls, one after the other.        *)
(***************************************************************************)
Next ==
    \/ \E r \in Texts, j \in Texts : CallMatchScore(1, r, j)
    \/ \E r \in Texts, j \in Texts : CallSemanticMatch(1, r, j)
    \/ \E r \in Texts, j \in Texts : CallHybridMatchScore(1, r, j)
    \/ SemanticSteps(1)
    \/ TfidfMatch(1)
    \/ Finish(1)

Spec == Init /\ [][Next]_vars

(***************************************************************************)
(* ConcSpec: NThreads callers of calculate_semantic_match run at once; a   *)
(* thread switch can fall between any two of the steps above.              *)
(***************************************************************************)
ConcNext ==
    \E t \in Threads :
        \/ \E r \in ConcTexts, j \in ConcTexts : CallSemanticMatch(t, r, j)
        \/ SemanticSteps(t)
        \/ Finish(t)

ConcSpec == Init /\ [][ConcNext]_vars

(***************************************************************************)
(* KeywordSpec: one caller makes any series of calls of the two functions  *)
(* of job_matcher, over the texts of Spec and the two long ones.           *)
(***************************************************************************)
\* get_missing_keywords(resume_text, job_description, top_n), start to return
CallMissingKeywords(t, resume_text, job_description, top_n) ==
    /\ Ready(t)
    /\ call' = [call EXCEPT ![t] = [fn |-> "get_missing_keywords",
                                    resume_text |-> resume_text,
                                    job_description |-> job_description,
                                    top_n |-> top_n]]
    /\ pc' = [pc EXCEPT ![t] = "done"]
    /\ missing' = [missing EXCEPT ![t] =
                     IF MissingKeywordsRun(resume_text, job_description, top_n).raised
                     THEN <<>>
                     ELSE <<MissingKeywordsRun(resume_text, job_description, top_n).ret>>]
    /\ raised' = [raised EXCEPT ![t] =
                     MissingKeywordsRun(resume_text, job_description, top_n).raised]
    /\ trace' = [trace EXCEPT ![t].fits =
                     MissingKeywordsRun(resume_text, job_description, top_n).fits]
    /\ UNCHANGED <<rest, _STOP_ADDITIONS, embedded, outputs, _model, invoked,
                   constructed, stores, model, fresh, semantic, tfidf, hybrid>>

KeywordNext ==
    \/ \E r \in KeywordTexts, j \in KeywordTexts : CallMatchScore(1, r, j)
    \/ \E r \in KeywordTexts, j \in KeywordTexts, top_n \in TopNs :
          CallMissingKeywords(1, r, j, top_n)
    \/ Finish(1)

KeywordSpec == Init /\ [][KeywordNext]_vars

(***************************************************************************)
(* FaultSpec: calls of calculate_match_score in which the scoring          *)
(* fit_transform can also fail with an exception that is not a ValueError  *)
(* (a MemoryError on a very large text, say).                              *)
(***************************************************************************)
\* calculate_match_score with inputs that pass the guard; fit_transform raises
\* an exception that `except ValueError` does not match, so it leaves the
\* function
MatchScoreFitRaises(t, resume_text, job_description) ==
    /\ Ready(t)
    /\ resume_text # <<>>
    /\ job_description # <<>>
    /\ call' = [call EXCEPT ![t] = [fn |-> "calculate_match_score",
                                    resume_text |-> resume_text,
                                    job_description |-> job_description]]
    /\ pc' = [pc EXCEPT ![t] = "done"]
    /\ tfidf' = [tfidf EXCEPT ![t] = <<>>]
    /\ raised' = [raised EXCEPT ![t] = TRUE]
    /\ trace' = [trace EXCEPT ![t].fits = 1, ![t].tfidf_calls = 1]
    /\ UNCHANGED <<rest, _STOP_ADDITIONS, embedded, outputs, missing, _model, invoked,
                   constructed, stores, model, fresh, semantic, hybrid>>

FaultNext ==
    \/ \E r \in Texts, j \in Texts : CallMatchScore(1, r, j)
    \/ \E r \in Texts, j \in Texts : MatchScoreFitRaises(1, r, j)
    \/ Finish(1)

FaultSpec == Init /\ [][FaultNext]_vars

(***************************************************************************)
(* RepeatSpec: one caller makes any series of calls of the four matchers.  *)
(* The outcome of one returned call is kept in the history, to be compared *)
(* with the outcome of every later call made with the same input.          *)
(***************************************************************************)
RepeatTexts == { <<>>, <<"p", "y">>, <<"p", "y", " ", "m", "l">> }

\* what the call of thread t returned
Outcome(t) ==
    [semantic |-> semantic[t], tfidf |-> tfidf[t], hybrid |-> hybrid[t],
     missing |-> missing[t]]

\* the returned call of thread t becomes the one followed; a call that encoded
\* is followed only together with the cosine it got
Remember(t) ==
    /\ pc[t] = "done"
    /\ ~raised[t]
    /\ outputs = Empty
    /\ trace[t].encodes = 1
         => <<call[t].resume_text, call[t].job_description>> \in DOMAIN embedded
    /\ outputs' = [input \in {call[t]} |->
                     [outcome |-> Outcome(t), loads |-> trace[t].loads]]
    /\ UNCHANGED <<rest, _STOP_ADDITIONS, embedded, missing, _model, invoked,
                   constructed, stores, pc, call, model, fresh, semantic, tfidf,
                   hybrid, raised, trace>>

RepeatNext ==
    \/ \E r \in RepeatTexts, j \in RepeatTexts : CallMatchScore(1, r, j)
    \/ \E r \in RepeatTexts, j \in RepeatTexts, top_n \in TopNs :
          CallMissingKeywords(1, r, j, top_n)
    \/ \E r \in RepeatTexts, j \in RepeatTexts : CallSemanticMatch(1, r, j)
    \/ \E r \in RepeatTexts, j \in RepeatTexts : CallHybridMatchScore(1, r, j)
    \/ SemanticSteps(1)
    \/ EncodeFollowed(1)
    \/ TfidfMatch(1)
    \/ Remember(1)
    \/ Finish(1)

RepeatSpec == Init /\ [][RepeatNext]_vars

(***************************************************************************)
(* PreprocessSpec: _preprocess applied to every string of up to MaxLen     *)
(* characters: a lower-case and an upper-case letter, a digit, three kinds *)
(* of whitespace, a punctuation mark and a letter outside ASCII.           *)
(***************************************************************************)
PreprocessChars == {"p", "P", "3", " ", "\n", "\t", "+", "é"}

RECURSIVE Strings(_)
Strings(n) ==
    IF n = 0 THEN {<<>>}
    ELSE LET shorter == Strings(n - 1)
         IN  shorter \cup {Append(text, c) : text \in shorter, c \in PreprocessChars}

\* _preprocess(text), start to return; one call is followed
CallPreprocess(text) ==
    /\ clean = <<>>
    /\ clean' = <<[text |-> text, ret |-> _preprocess(text)]>>
    /\ UNCHANGED <<matcher, cache, monitor, agent>>

PreprocessNext == \E text \in Strings(MaxLen) : CallPreprocess(text)

PreprocessSpec == Init /\ [][PreprocessNext]_vars

(***************************************************************************)
(* ScoreSpec: Spec, and calls of calculate_match_score of which only the   *)
(* cosine of the two scoring vectors is followed.  The cosine of two       *)
(* non-negative tf-idf rows is any value from 0 to 1 (and a float step     *)
(* above); the ones taken here lie around the tier boundaries.             *)
(***************************************************************************)
\* raw cosines at 0, 0.4, 0.6, 0.8 and 1
TierBoundaries == {0, 40000, 60000, 80000, 100000}

ScoreSims ==
    {b + 5 * k : b \in TierBoundaries, k \in (0 - ScoreWidth)..ScoreWidth}
        \cap 0..100002

\* calculate_match_score from the cosine on: the score, the cap, the analysis
\* and the return; the texts and the keywords are not followed
ScoreSimilarity(t, similarity) ==
    /\ Ready(t)
    /\ call' = [call EXCEPT ![t] = [fn |-> "calculate_match_score"]]
    /\ pc' = [pc EXCEPT ![t] = "done"]
    /\ tfidf' = [tfidf EXCEPT ![t] =
                   <<[score |-> MatchScoreOf(similarity), top_keywords |-> <<>>,
                      analysis |-> MatchAnalysis(MatchScoreOf(similarity))]>>]
    /\ trace' = [trace EXCEPT ![t].fits = 2, ![t].tfidf_calls = 1]
    /\ UNCHANGED <<rest, _STOP_ADDITIONS, embedded, outputs, missing,
                   _model, invoked, constructed, stores, model, fresh, semantic,
                   hybrid, raised>>

ScoreNext ==
    \/ Next
    \/ \E similarity \in ScoreSims : ScoreSimilarity(1, similarity)

ScoreSpec == Init /\ [][ScoreNext]_vars

(***************************************************************************)
(* cache.py: the @cached decorator over a Redis server.  The server keeps  *)
(* string values under string keys, each with a time to live; the client   *)
(* is built with decode_responses=True, so get answers a str or None.      *)
(***************************************************************************)

\* two of the functions agent.py decorates with @cached, with the prefix and
\* the ttl given to the decorator
CachedFunctions ==
    { [func |-> "generate_resume_summary", prefix |-> "resume_summary", ttl |-> 3600],
      [func |-> "extract_ats_keywords", prefix |-> "ats_keywords", ttl |-> 7200] }

\* str(args) of the calls followed
CacheArgs == {"x", "y"}

\* what executing the wrapped function does: it returns a str, it returns an
\* object that is not a str, or it raises
FuncOutcomes ==
    { [kind |-> "str", value |-> ""],
      [kind |-> "str", value |-> "a"],
      [kind |-> "list", value |-> "a"],
      [kind |-> "raise", value |-> "RuntimeError"] }

\* the prefix, then the md5 of the JSON of func and str(args); the digest is
\* kept as the data it is the digest of (no two of the calls followed collide)
_make_cache_key(prefix, data) == <<prefix, data.func, data.args>>

\* redis_client.get(key): the value, None (here <<>>) when the key is absent
RedisGet(redis, key) == IF key \in DOMAIN redis THEN <<redis[key].value>> ELSE <<>>

SetexDefaultTtl(redis, key, ttl, value) ==
    [k \in DOMAIN redis \cup {key} |->
        IF k = key THEN [value |-> value, ttl |-> 3600] ELSE redis[k]]

\* redis_client.setex(key, ttl, value)
RedisSetex(redis, key, ttl, value) ==
    [k \in DOMAIN redis \cup {key} |->
        IF k = key THEN [value |-> value, ttl |-> ttl] ELSE redis[k]]

\* `if cached_value:` None and the empty string are false
IsTruthy(cached_value) == cached_value # <<>> /\ cached_value[1] # ""

PropagatedUncaught(error) == error

\* `except Exception as e: logger.warning(...)` around the read and around
\* the write: what of the error leaves the handler
Propagated(error) == <<>>

\* the wrapper ends: what it did, and the server after it
WrapperEnds(key, found, rerr, executed, returned, raising, recorded, werr, redis) ==
    [key |-> key, found |-> found, read_error |-> rerr,
     executed |-> executed, returned |-> returned, raised |-> raising,
     recorded |-> recorded, write_error |-> werr, store |-> redis]

\* `return func(*args, **kwargs)` with no Redis client
Uncached(key, outcome, redis) ==
    IF outcome.kind = "raise"
    THEN WrapperEnds(key, <<>>, FALSE, 1, <<>>, <<outcome.value>>, "none", FALSE, redis)
    ELSE WrapperEnds(key, <<>>, FALSE, 1, <<outcome>>, <<>>, "none", FALSE, redis)

\* the miss: record_cache_miss, the function, and the write of a str result
CacheMiss(key, found, read_error, ttl, outcome, setex_ok, redis) ==
    IF outcome.kind = "raise"
    THEN WrapperEnds(key, found, read_error, 1, <<>>, <<outcome.value>>, "miss",
                     FALSE, redis)
    ELSE IF outcome.kind # "str"
    THEN WrapperEnds(key, found, read_error, 1, <<outcome>>, <<>>, "miss", FALSE, redis)
    ELSE IF setex_ok
    THEN WrapperEnds(key, found, read_error, 1, <<outcome>>, <<>>, "miss", FALSE,
                     RedisSetex(redis, key, ttl, outcome.value))
    ELSE LET escaped == Propagated(<<"ConnectionError">>)
         IN  WrapperEnds(key, found, read_error, 1,
                         IF escaped = <<>> THEN <<outcome>> ELSE <<>>,
                         escaped, "miss", TRUE, redis)

\* wrapper(*args) of cached(prefix, ttl)(func), start to return.  get_ok and
\* setex_ok say whether the server answers the read and the write; outcome
\* is what the function does if it is executed
CachedWrapper(client, redis, d, args, get_ok, outcome, setex_ok) ==
    LET key == _make_cache_key(d.prefix, [func |-> d.func, args |-> args])
    IN  IF client = "None" THEN Uncached(key, outcome, redis)
        ELSE IF ~get_ok
        THEN LET escaped == Propagated(<<"ConnectionError">>)
             IN  IF escaped = <<>>
                 THEN CacheMiss(key, <<>>, TRUE, d.ttl, outcome, setex_ok, redis)
                 ELSE WrapperEnds(key, <<>>, TRUE, 0, <<>>, escaped, "none", FALSE, redis)
        ELSE LET cached_value == RedisGet(redis, key)
             IN  IF IsTruthy(cached_value)
                 THEN WrapperEnds(key, cached_value, FALSE, 0,
                                  <<[kind |-> "str", value |-> cached_value[1]]>>,
                                  <<>>, "hit", FALSE, redis)
                 ELSE CacheMiss(key, cached_value, FALSE, d.ttl, outcome, setex_ok, redis)

\* the try block run when cache.py is imported: the client is kept if the
\* library is there and the server answers the ping
Connect(ok) ==
    /\ connecting
    /\ connecting' = FALSE
    /\ redis_client' = IF ok THEN "Redis" ELSE "None"
    /\ UNCHANGED <<store, cached_call, matcher, clean, monitor, agent>>

\* one call of a @cached function, start to return
CallCached(d, args, get_ok, outcome, setex_ok) ==
    /\ ~connecting
    /\ LET r == CachedWrapper(redis_client, store, d, args, get_ok, outcome, setex_ok)
       IN  /\ cached_call' = <<[prefix |-> d.prefix, ttl |-> d.ttl, args |-> args,
                                client |-> redis_client, outcome |-> outcome,
                                key |-> r.key, found |-> r.found,
                                read_error |-> r.read_error, executed |-> r.executed,
                                returned |-> r.returned, raised |-> r.raised,
                                recorded |-> r.recorded, write_error |-> r.write_error,
                                stored |-> RedisGet(r.store, r.key),
                                stored_ttl |-> IF r.key \in DOMAIN r.store
                                               THEN r.store[r.key].ttl ELSE 0]>>
           /\ store' = r.store
    /\ UNCHANGED <<connecting, redis_client, matcher, clean, monitor, agent>>

\* the server drops a key whose time to live has run out
Expire(key) ==
    /\ key \in DOMAIN store
    /\ store' = [k \in DOMAIN store \ {key} |-> store[k]]
    /\ UNCHANGED <<connecting, redis_client, cached_call, matcher, clean, monitor, agent>>

CacheNext ==
    \/ \E ok \in BOOLEAN : Connect(ok)
    \/ \E d \in CachedFunctions, args \in CacheArgs, get_ok \in BOOLEAN,
          outcome \in FuncOutcomes, setex_ok \in BOOLEAN :
            CallCached(d, args, get_ok, outcome, setex_ok)
    \/ \E key \in DOMAIN store : Expire(key)

CacheSpec == Init /\ [][CacheNext]_vars

(***************************************************************************)
(* monitoring.py: the wrappers of track_api_call and track_gemini_call     *)
(* over the Prometheus metrics.  The wrapper of track_api_call is a        *)
(* coroutine: several of its calls are in flight at once, each one         *)
(* suspended in its await, and the steps of its finally block are kept     *)
(* apart.  The wrapper of track_gemini_call is a plain function and is     *)
(* followed from start to return.                                          *)
(***************************************************************************)

\* what the wrapped function does: it returns, it raises an exception that is
\* an Exception, or it raises one that is a BaseException only (a coroutine
\* cancelled in its await raises asyncio.CancelledError)
TrackOutcomes ==
    { [kind |-> "return", value |-> "result"],
      [kind |-> "raise", value |-> "ValueError"],
      [kind |-> "raise", value |-> "CancelledError"] }

\* the exceptions `except Exception` catches
IsException(exc) == exc \in {"ValueError", "RuntimeError"}

\* status = 'success', then 'error' in the handler of `except Exception`
StatusAfter(outcome) ==
    IF outcome.kind = "raise" /\ IsException(outcome.value) THEN "error" ELSE "success"

\* a thread before its first wrapped call
NotTracked ==
    [at |-> "idle", wrapper |-> "none", outcome |-> <<>>, status |-> "success",
     observed |-> 0, counted |-> <<>>, incs |-> 0, decs |-> 0,
     returned |-> <<>>, reraised |-> <<>>]

\* the wrapped calls in flight: entered, and not yet left
InFlight == {t \in Threads : tracked[t].at # "idle"}

\* the calls the counters have counted
Counted(counter) == counter["success"] + counter["error"]

\* the calls made so far through either wrapper
Requests == Counted(api_requests_total) + Counted(gemini_calls_total)
                + Cardinality({t \in InFlight : tracked[t].at # "dec"})

\* counter.labels(status=status).inc()
Inc(counter, status) == [counter EXCEPT ![status] = @ + 1]

GaugeDecOnSuccess(gauge, status) == IF status = "success" THEN gauge - 1 ELSE gauge

\* active_requests.dec() in the finally block
GaugeDec(gauge, status) == gauge - 1

\* what the caller gets when the wrapper ends: the result, or the exception
Passed(outcome) == IF outcome.kind = "return" THEN <<outcome.value>> ELSE <<>>

Reraised(outcome) == IF outcome.kind = "raise" THEN <<outcome.value>> ELSE <<>>

\* track_api_call: the wrapper is entered, up to the await
ApiEnter(t) ==
    /\ tracked[t].at = "idle"
    /\ Requests < MaxRequests
    /\ active_requests' = active_requests + 1
    /\ tracked' = [tracked EXCEPT ![t] =
                      [NotTracked EXCEPT !.at = "await", !.wrapper = "api", !.incs = 1]]
    /\ UNCHANGED <<api_requests_total, api_latency_seconds, gemini_calls_total,
                   gemini_latency_seconds, matcher, clean, cache, agent>>

\* the awaited function ends, and the except clause if it applies
ApiAwait(t, outcome) ==
    /\ tracked[t].at = "await"
    /\ tracked' = [tracked EXCEPT ![t].at = "observe", ![t].outcome = <<outcome>>,
                                  ![t].status = StatusAfter(outcome)]
    /\ UNCHANGED <<active_requests, api_requests_total, api_latency_seconds,
                   gemini_calls_total, gemini_latency_seconds, matcher, clean, cache, agent>>

\* finally: api_latency_seconds.labels(endpoint).observe(duration)
ApiObserve(t) ==
    /\ tracked[t].at = "observe"
    /\ api_latency_seconds' = api_latency_seconds + 1
    /\ tracked' = [tracked EXCEPT ![t].at = "count", ![t].observed = @ + 1]
    /\ UNCHANGED <<active_requests, api_requests_total, gemini_calls_total,
                   gemini_latency_seconds, matcher, clean, cache, agent>>

\* finally: api_requests_total.labels(endpoint, status).inc()
ApiCount(t) ==
    /\ tracked[t].at = "count"
    /\ api_requests_total' = Inc(api_requests_total, tracked[t].status)
    /\ tracked' = [tracked EXCEPT ![t].at = "dec",
                                  ![t].counted = Append(@, tracked[t].status)]
    /\ UNCHANGED <<active_requests, api_latency_seconds, gemini_calls_total,
                   gemini_latency_seconds, matcher, clean, cache, agent>>

\* finally: active_requests.dec(), the log line, and the wrapper is left
ApiDec(t) ==
    /\ tracked[t].at = "dec"
    /\ active_requests' = GaugeDec(active_requests, tracked[t].status)
    /\ tracked' = [tracked EXCEPT ![t].at = "idle",
                                  ![t].decs = active_requests - active_requests',
                                  ![t].returned = Passed(tracked[t].outcome[1]),
                                  ![t].reraised = Reraised(tracked[t].outcome[1])]
    /\ UNCHANGED <<api_requests_total, api_latency_seconds, gemini_calls_total,
                   gemini_latency_seconds, matcher, clean, cache, agent>>

\* track_gemini_call: the wrapper, start to return
GeminiTracked(t, outcome) ==
    /\ tracked[t].at = "idle"
    /\ Requests < MaxRequests
    /\ gemini_latency_seconds' = gemini_latency_seconds + 1
    /\ gemini_calls_total' = Inc(gemini_calls_total, StatusAfter(outcome))
    /\ tracked' = [tracked EXCEPT ![t] =
                      [NotTracked EXCEPT !.wrapper = "gemini", !.outcome = <<outcome>>,
                                         !.status = StatusAfter(outcome),
                                         !.observed = 1,
                                         !.counted = <<StatusAfter(outcome)>>,
                                         !.returned = Passed(outcome),
                                         !.reraised = Reraised(outcome)]]
    /\ UNCHANGED <<active_requests, api_requests_total, api_latency_seconds,
                   matcher, clean, cache, agent>>

MonitorNext ==
    \E t \in Threads :
        \/ ApiEnter(t)
        \/ \E outcome \in TrackOutcomes : ApiAwait(t, outcome)
        \/ ApiObserve(t)
        \/ ApiCount(t)
        \/ ApiDec(t)
        \/ \E outcome \in TrackOutcomes : GeminiTracked(t, outcome)

MonitorSpec == Init /\ [][MonitorNext]_vars

(***************************************************************************)
(* agent.py: _call_gemini, one generate_content attempt per step.          *)
(***************************************************************************)

MAX_RETRIES == 3

\* seconds
RETRY_DELAY == 2

\* what one attempt gives: a response with a text, a falsy response, a
\* blocked response (reading response.text raises ValueError), or an
\* exception of generate_content
Responses ==
    { [kind |-> "text", text |-> <<"o", "k">>],
      [kind |-> "text", text |-> <<" ", "o", "k", "\n">>],
      [kind |-> "text", text |-> <<" ">>],
      [kind |-> "text", text |-> <<>>],
      [kind |-> "none", text |-> <<>>],
      [kind |-> "blocked", text |-> <<>>],
      [kind |-> "error", text |-> <<>>] }

AttemptFailedOnErrorOnly(response) == response.kind = "error"

\* the attempt ends in the except clause: generate_content raised, or
\* `not response or not response.text` raised ValueError
AttemptFailed(response) ==
    \/ response.kind \in {"error", "none", "blocked"}
    \/ response.text = <<>>

\* _call_gemini(prompt) is entered: _get_model(), which raises ValueError
\* when no API key is configured
GeminiStart(configured) ==
    /\ gemini.at = "idle"
    /\ gemini' = IF configured
                 THEN [at |-> "attempt", attempt |-> 1, attempts |-> <<>>, slept |-> 0,
                       ret |-> <<>>, raised |-> <<>>]
                 ELSE [at |-> "done", attempt |-> 0, attempts |-> <<>>, slept |-> 0,
                       ret |-> <<>>, raised |-> <<"ValueError">>]
    /\ UNCHANGED <<handled, matcher, clean, cache, monitor>>

\* one pass of the loop: the attempt, then the return, or the except clause
\* with its sleep, or after the last pass the RuntimeError
GeminiAttempt(response) ==
    /\ gemini.at = "attempt"
    /\ LET tried == Append(gemini.attempts, response)
       IN  gemini' =
               IF ~AttemptFailed(response)
               THEN [gemini EXCEPT !.at = "done", !.attempts = tried,
                                   !.ret = <<Strip(response.text)>>]
               ELSE IF gemini.attempt < MAX_RETRIES
               THEN [gemini EXCEPT !.attempts = tried, !.attempt = @ + 1,
                                   !.slept = @ + RETRY_DELAY * gemini.attempt]
               ELSE [gemini EXCEPT !.at = "done", !.attempts = tried,
                                   !.raised = <<"RuntimeError">>]
    /\ UNCHANGED <<handled, matcher, clean, cache, monitor>>

\* the caller has the outcome; the next call can start
GeminiOver ==
    /\ gemini.at = "done"
    /\ gemini' = [at |-> "idle", attempt |-> 0, attempts |-> <<>>, slept |-> 0,
                  ret |-> <<>>, raised |-> <<>>]
    /\ UNCHANGED <<handled, matcher, clean, cache, monitor>>

GeminiNext ==
    \/ \E configured \in BOOLEAN : GeminiStart(configured)
    \/ \E response \in Responses : GeminiAttempt(response)
    \/ GeminiOver

\* a call that was entered runs on: every attempt ends
GeminiSpec ==
    Init /\ [][GeminiNext]_vars
         /\ WF_vars(\E response \in Responses : GeminiAttempt(response))

(***************************************************************************)
(* main.py: the endpoint generate_resume, one request from start to        *)
(* response.  A text is a sequence of parts; what the AI functions,        *)
(* calculate_match_score and generate_pdf do is drawn from their outcomes. *)
(***************************************************************************)

\* the fields of UserData the handler looks at (all default to "")
Requests_skills == {"", "python"}
Requests_experience == {"", "developer"}
Requests_target_role == {"", "engineer"}
Requests_job_description == {"", "python engineer"}

\* a function of agent.py returns its text, or raises: RuntimeError when
\* every Gemini attempt failed, ValueError when no API key is configured
AiOutcomes(name) ==
    { [kind |-> "return", value |-> <<"ai", name>>, exc |-> ""],
      [kind |-> "raise", value |-> <<>>, exc |-> "RuntimeError"],
      [kind |-> "raise", value |-> <<>>, exc |-> "ValueError"] }

\* calculate_match_score returns its record, or an exception of the
\* vectorizer leaves it
MatchOutcomes ==
    { [kind |-> "return", value |-> [score |-> 0, top_keywords |-> <<>>], exc |-> ""],
      [kind |-> "return", value |-> [score |-> Pct(42), top_keywords |-> <<"python">>],
       exc |-> ""],
      [kind |-> "raise", value |-> [score |-> 0, top_keywords |-> <<>>],
       exc |-> "MemoryError"] }

\* generate_pdf returns the path of the file, or raises
PdfOutcomes ==
    { [kind |-> "return", value |-> "resume.pdf", exc |-> ""],
      [kind |-> "raise", value |-> "", exc |-> "OSError"],
      [kind |-> "raise", value |-> "", exc |-> "ValueError"] }

\* `data.field or "default"`
OrDefault(value, default) == IF value = "" THEN default ELSE value

\* the f-string of the fallback summary
FallbackSummary(target_text, skills_text, experience_text) ==
    <<"Experienced professional seeking a ", target_text, " role. ",
      "Skilled in ", skills_text, ". ", experience_text>>

FallbackRecommendations ==
    <<"Strong match! Resume aligns well with job requirements.",
      "Consider adding more specific metrics and achievements.",
      "Highlight collaborative projects and team leadership.">>

GuardedValueErrorOnly(outcome, fallback) ==
    IF outcome.kind = "return" THEN [value |-> outcome.value, escaped |-> <<>>]
    ELSE IF outcome.exc = "ValueError" THEN [value |-> fallback, escaped |-> <<>>]
    ELSE [value |-> fallback, escaped |-> <<outcome.exc>>]

\* try: value = step(...)  except Exception: value = fallback
Guarded(outcome, fallback) ==
    IF outcome.kind = "return" THEN [value |-> outcome.value, escaped |-> <<>>]
    ELSE IF IsException(outcome.exc) THEN [value |-> fallback, escaped |-> <<>>]
    ELSE [value |-> fallback, escaped |-> <<outcome.exc>>]

\* the three except clauses of the outer try
HttpStatus(exc) ==
    CASE exc = "ValueError" -> 400
      [] exc = "RuntimeError" -> 502
      [] OTHER -> 500

HttpError(ran, failed, exc) ==
    [http |-> HttpStatus(exc), ran |-> ran, failed |-> <<failed>>, body |-> <<>>]

\* from the PDF on
ResumeFromPdf(ran, summary, skills, experience, match, recommendations, pdf) ==
    IF pdf.kind = "raise"
    THEN HttpError(Append(ran, "generate_pdf"), "generate_pdf", pdf.exc)
    ELSE [http |-> 200, ran |-> Append(ran, "generate_pdf"), failed |-> <<>>,
          body |-> <<[summary |-> summary, optimized_skills |-> skills,
                      enhanced_experience |-> experience,
                      job_match_score |-> match.score,
                      matching_keywords |-> match.top_keywords,
                      recommendations |-> recommendations,
                      pdf_path |-> pdf.value]>>]

\* from the job matching on
ResumeFromMatch(ran, job_description, summary, skills, experience, o_match, o_rec, pdf) ==
    IF job_description = ""
    THEN ResumeFromPdf(ran, summary, skills, experience,
                       [score |-> 0, top_keywords |-> <<>>], <<>>, pdf)
    ELSE IF o_match.kind = "raise"
    THEN HttpError(Append(ran, "calculate_match_score"), "calculate_match_score",
                   o_match.exc)
    ELSE LET rec == Guarded(o_rec, FallbackRecommendations)
             ran2 == ran \o <<"calculate_match_score", "generate_recommendations">>
         IN  IF rec.escaped # <<>>
             THEN HttpError(ran2, "generate_recommendations", rec.escaped[1])
             ELSE ResumeFromPdf(ran2, summary, skills, experience, o_match.value,
                                rec.value, pdf)

\* generate_resume(data), start to response
generate_resume(data, o_summary, o_skills, o_experience, o_match, o_rec, o_pdf) ==
    LET skills_text == OrDefault(data.skills, "General professional skills")
        experience_text == OrDefault(data.experience, "Professional experience")
        target_text == OrDefault(data.target_role, "Professional")
        summary == Guarded(o_summary,
                           FallbackSummary(target_text, skills_text, experience_text))
        optimized_skills == Guarded(o_skills, <<skills_text>>)
        enhanced_experience == Guarded(o_experience, <<experience_text>>)
    IN  IF summary.escaped # <<>>
        THEN HttpError(<<"generate_resume_summary">>, "generate_resume_summary",
                       summary.escaped[1])
        ELSE IF optimized_skills.escaped # <<>>
        THEN HttpError(<<"generate_resume_summary", "optimize_skills">>,
                       "optimize_skills", optimized_skills.escaped[1])
        ELSE IF enhanced_experience.escaped # <<>>
        THEN HttpError(<<"generate_resume_summary", "optimize_skills",
                         "enhance_experience">>,
                       "enhance_experience", enhanced_experience.escaped[1])
        ELSE ResumeFromMatch(<<"generate_resume_summary", "optimize_skills",
                               "enhance_experience">>,
                             data.job_description, summary.value,
                             optimized_skills.value, enhanced_experience.value,
                             o_match, o_rec, o_pdf)

\* one request to /api/generate-resume is followed
HandleGenerateResume(data, o_summary, o_skills, o_experience, o_match, o_rec, o_pdf) ==
    /\ handled = <<>>
    /\ handled' = <<[data |-> data, o_summary |-> o_summary, o_skills |-> o_skills,
                     o_experience |-> o_experience, o_match |-> o_match,
                     o_rec |-> o_rec, o_pdf |-> o_pdf,
                     response |-> generate_resume(data, o_summary, o_skills,
                                                  o_experience, o_match, o_rec, o_pdf)]>>
    /\ UNCHANGED <<gemini, matcher, clean, cache, monitor>>

EndpointNext ==
    \E skills \in Requests_skills, experience \in Requests_experience,
       target_role \in Requests_target_role,
       job_description \in Requests_job_description,
       o_summary \in AiOutcomes("summary"), o_skills \in AiOutcomes("skills"),
       o_experience \in AiOutcomes("experience"), o_match \in MatchOutcomes,
       o_rec \in AiOutcomes("recommendations"), o_pdf \in PdfOutcomes :
        HandleGenerateResume([skills |-> skills, experience |-> experience,
                              target_role |-> target_role,
                              job_description |-> job_description],
                             o_summary, o_skills, o_experience, o_match, o_rec, o_pdf)

EndpointSpec == Init /\ [][EndpointNext]_vars

(***************************************************************************)
(* Properties.                                                             *)
(***************************************************************************)
IsBlank(text) == \A i \in DOMAIN text : text[i] \in Whitespace

Returned(t, fn) == pc[t] = "done" /\ call[t].fn = fn /\ ~raised[t]

Ended(t, fn) == pc[t] = "done" /\ call[t].fn = fn

\* C1: with several callers of calculate_semantic_match running at once, the
\* model is built once only and every caller obtains that one model.
C1_SingleLoadUnderConcurrency ==
    /\ constructed <= 1
    /\ \A t \in Threads : model[t] \in {0, 1}

\* C2 as stated: over a series of calls made one after the other the
\* constructor is invoked at most once, _model is assigned at most once and
\* every call that obtained a model holds the one in _model.
C2_ConstructorInvokedAtMostOnce ==
    /\ invoked <= 1
    /\ stores <= 1
    /\ \A t \in Threads : model[t] # 0 => model[t] = _model

\* C2 as amended: over a series of calls made one after the other the
\* constructor returns a model at most once; a constructor call that raises
\* leaves _model None, so a later call invokes it again; once _model is set
\* it is never assigned again and every call that obtained a model holds it.
C2_ModelBuiltAtMostOnce ==
    /\ constructed <= 1
    /\ stores <= 1
    /\ (_model # 0 => _model = 1 /\ stores = 1)
    /\ (constructed = 0 => _model = 0)
    /\ \A t \in Threads : model[t] # 0 => model[t] = _model

\* a call that reused the model built by an earlier call, after a still
\* earlier call had failed to build it
C2_ReusedAfterFailedLoad ==
    /\ invoked = 2
    /\ constructed = 1
    /\ pc[1] = "encode"
    /\ model[1] = 1
    /\ trace[1].loads = 0

\* C3: calculate_match_score returns the "Insufficient text" record, and calls
\* no fit_transform, whenever one of its inputs is empty or only whitespace.
C3_BlankInputShortCircuits ==
    \A t \in Threads :
        (/\ Ended(t, "calculate_match_score")
         /\ (IsBlank(call[t].resume_text) \/ IsBlank(call[t].job_description)))
        => /\ ~raised[t]
           /\ tfidf[t] = <<[score |-> 0, top_keywords |-> <<>>,
                            analysis |-> <<"Insufficient text provided for analysis.">>]>>
           /\ trace[t].fits = 0

\* C4: calculate_semantic_match returns {semantic_score: 0.0,
\* embedding_distance: 1.0}, and neither builds nor uses the model, whenever
\* one of its inputs is empty or only whitespace.
C4_BlankInputSkipsModel ==
    \A t \in Threads :
        (/\ Ended(t, "calculate_semantic_match")
         /\ (IsBlank(call[t].resume_text) \/ IsBlank(call[t].job_description)))
        => /\ ~raised[t]
           /\ semantic[t] = <<[semantic_score |-> 0, embedding_distance |-> 100000]>>
           /\ model[t] = 0
           /\ trace[t].loads = 0
           /\ trace[t].encodes = 0

\* C5: every call of calculate_hybrid_match_score, however it ends, has called
\* the semantic engine and the lexical engine.
C5_BothEnginesAlwaysCalled ==
    \A t \in Threads :
        Ended(t, "calculate_hybrid_match_score")
        => trace[t].semantic_calls = 1 /\ trace[t].tfidf_calls = 1

\* C6: the score calculate_hybrid_match_score returns is
\* semantic_score * 0.6 + lexical_score * 0.4 rounded to 2 decimals, over the
\* scores the two engines return for the same inputs.
C6_HybridScoreIsWeightedSum ==
    \A t \in Threads :
        Returned(t, "calculate_hybrid_match_score")
        => /\ semantic[t] # <<>> /\ tfidf[t] # <<>> /\ hybrid[t] # <<>>
           /\ tfidf[t][1] = calculate_match_score(call[t].resume_text,
                                                 call[t].job_description)
           /\ hybrid[t][1].score =
                 RoundHalfEven((semantic[t][1].semantic_score * 6
                                + tfidf[t][1].score * 4) \div 10, 100)

\* a hybrid result over two different non-zero scores whose weighted sum has
\* more than 2 decimals
C6_RoundedBlendReturned ==
    \E t \in Threads :
        /\ Returned(t, "calculate_hybrid_match_score")
        /\ semantic[t][1].semantic_score > 0
        /\ tfidf[t][1].score > 0
        /\ semantic[t][1].semantic_score # tfidf[t][1].score
        /\ ((semantic[t][1].semantic_score * 6 + tfidf[t][1].score * 4) \div 10) % 100 # 0

TierOfScore(score) ==
    IF score >= Pct(80) THEN "Excellent match ("
    ELSE IF score >= Pct(60) THEN "Good match ("
    ELSE IF score >= Pct(40) THEN "Moderate match ("
    ELSE "Low match ("

\* C7: the tier the hybrid analysis names is the tier of the returned score:
\* >= 80 Excellent, >= 60 Good, >= 40 Moderate, else Low.
C7_TierAgreesWithReturnedScore ==
    \A t \in Threads :
        Returned(t, "calculate_hybrid_match_score")
        => hybrid[t][1].analysis[1] = TierOfScore(hybrid[t][1].score)

\* C8: in every tier the hybrid analysis prints the semantic score and the
\* keyword score.
C8_AnalysisReportsBothSubScores ==
    \A t \in Threads :
        Returned(t, "calculate_hybrid_match_score")
        => /\ Len(hybrid[t][1].analysis) = 7
           /\ hybrid[t][1].analysis[4] = Format1f(semantic[t][1].semantic_score)
           /\ hybrid[t][1].analysis[6] = Format1f(tfidf[t][1].score)

\* C9: the semantic_score of calculate_semantic_match and the semantic_score
\* and score of calculate_hybrid_match_score lie in [0, 100] for every raw
\* cosine, negative ones included.
C9_SemanticScoresWithinRange ==
    \A t \in Threads :
        /\ semantic[t] # <<>>
           => 0 <= semantic[t][1].semantic_score
              /\ semantic[t][1].semantic_score <= Pct(100)
        /\ hybrid[t] # <<>>
           => /\ 0 <= hybrid[t][1].semantic_score
              /\ hybrid[t][1].semantic_score <= Pct(100)
              /\ 0 <= hybrid[t][1].score
              /\ hybrid[t][1].score <= Pct(100)

\* C10: for non-empty inputs calculate_match_score returns a score in [0, 100].
C10_MatchScoreWithinRange ==
    \A t \in Threads :
        (/\ pc[t] = "done"
         /\ trace[t].tfidf_calls = 1
         /\ call[t].resume_text # <<>>
         /\ call[t].job_description # <<>>)
        => /\ ~raised[t]
           /\ tfidf[t] # <<>>
           /\ 0 <= tfidf[t][1].score
           /\ tfidf[t][1].score <= Pct(100)

\* calculate_match_score returned a score strictly inside the range for two
\* different non-empty texts
C10_PartialMatchScored ==
    \E t \in Threads :
        /\ Returned(t, "calculate_match_score")
        /\ call[t].resume_text # call[t].job_description
        /\ tfidf[t][1].score > 0
        /\ tfidf[t][1].score < Pct(100)

\* C11: calculate_match_score chooses the tier of its analysis from the
\* rounded score it returns (>= 80 Excellent, >= 60 Good, >= 40 Moderate, else
\* Low; exactly 80.0 is Excellent), and the number in the message is the
\* returned score.
C11_TierFromReturnedScore ==
    \A t \in Threads :
        (tfidf[t] # <<>> /\ Len(tfidf[t][1].analysis) = 3)
        => /\ tfidf[t][1].analysis[1] = TierOfScore(tfidf[t][1].score)
           /\ tfidf[t][1].analysis[2] = tfidf[t][1].score

\* calculate_match_score returned exactly 80.0 and called it Excellent
C11_ExactlyEightyIsExcellent ==
    \E t \in Threads :
        /\ pc[t] = "done"
        /\ call[t].fn = "calculate_match_score"
        /\ tfidf[t] # <<>>
        /\ tfidf[t][1].score = Pct(80)
        /\ tfidf[t][1].analysis[1] = "Excellent match ("

\* C12: the fields calculate_hybrid_match_score returns satisfy
\* min(semantic_score, keyword_score) <= score
\*                                     <= max(semantic_score, keyword_score) + 10.
C12_HybridBetweenSubScores ==
    \A t \in Threads :
        Returned(t, "calculate_hybrid_match_score")
        => /\ Min(hybrid[t][1].semantic_score, hybrid[t][1].keyword_score)
                <= hybrid[t][1].score
           /\ hybrid[t][1].score
                <= Max(hybrid[t][1].semantic_score, hybrid[t][1].keyword_score)
                   + Pct(10)

\* a hybrid result whose two sub-scores are positive and differ, the score
\* lying strictly between them
C12_StrictlyBetween ==
    \E t \in Threads :
        /\ Returned(t, "calculate_hybrid_match_score")
        /\ hybrid[t][1].semantic_score > 0
        /\ hybrid[t][1].keyword_score > 0
        /\ Min(hybrid[t][1].semantic_score, hybrid[t][1].keyword_score)
             < hybrid[t][1].score
        /\ hybrid[t][1].score
             < Max(hybrid[t][1].semantic_score, hybrid[t][1].keyword_score)

\* the fitted keyword vectorizer of a call: max_features=500, plain tf
KeywordFit(t) ==
    fit_transform(<<_preprocess(call[t].resume_text),
                    _preprocess(call[t].job_description)>>, 500, FALSE)

Range(seq) == {seq[i] : i \in DOMAIN seq}

\* the terms with positive weight in both rows
InBoth(fit) ==
    {w \in Range(fit.feature_names) : fit.matrix[1][w] > 0 /\ fit.matrix[2][w] > 0}

\* a ranks before b: greater sum of the two weights, or the same sum and
\* earlier in the vocabulary
RanksBefore(fit, a, b) ==
    \/ fit.matrix[1][a] + fit.matrix[2][a] > fit.matrix[1][b] + fit.matrix[2][b]
    \/ /\ fit.matrix[1][a] + fit.matrix[2][a] = fit.matrix[1][b] + fit.matrix[2][b]
       /\ TermLess(a, b)

TopKeywordsAsClaimed(kw, fit, resume_terms, job_terms) ==
    /\ Len(kw) = Min(10, Cardinality(InBoth(fit)))
    /\ \A i \in DOMAIN kw : kw[i] \in InBoth(fit)
    /\ \A i \in DOMAIN kw : \A k \in DOMAIN kw : i < k => RanksBefore(fit, kw[i], kw[k])
    /\ \A w \in InBoth(fit) \ Range(kw) :
          \A i \in DOMAIN kw : RanksBefore(fit, kw[i], w)
    /\ \A i \in DOMAIN kw : kw[i] \in resume_terms /\ kw[i] \in job_terms

\* C13: the top_keywords of calculate_match_score are the first 10 (or fewer)
\* of the terms with non-zero weight in both the resume row and the job row,
\* by descending sum of the two weights, equal sums in vocabulary order; each
\* of them is a term of both documents.
C13_TopKeywordsRanked ==
    \A t \in Threads :
        (Returned(t, "calculate_match_score") /\ trace[t].fits = 2)
        => TopKeywordsAsClaimed(tfidf[t][1].top_keywords, KeywordFit(t),
                                Range(Analyze(_preprocess(call[t].resume_text))),
                                Range(Analyze(_preprocess(call[t].job_description))))

\* eleven terms are in both documents, ten are returned, and the first one
\* returned is not the first of the vocabulary
C13_EleventhKeywordCut ==
    \E t \in Threads :
        /\ Returned(t, "calculate_match_score")
        /\ trace[t].fits = 2
        /\ Cardinality(InBoth(KeywordFit(t))) = 11
        /\ Len(tfidf[t][1].top_keywords) = 10
        /\ tfidf[t][1].top_keywords[1] # KeywordFit(t).feature_names[1]

\* the fitted vectorizer of a call of get_missing_keywords
MissingFit(t) == KeywordFit(t)

\* the terms with zero weight in the resume row and positive weight in the
\* job row
JobOnly(fit) ==
    IF fit.ValueError THEN {}
    ELSE {w \in Range(fit.feature_names) :
            fit.matrix[1][w] = 0 /\ fit.matrix[2][w] > 0}

JobWeight(fit, w) == fit.matrix[2][w]

\* the words of a normalised text: what lies between its spaces
RECURSIVE WordsFrom(_, _)
WordsFrom(text, cur) ==
    IF text = <<>> THEN (IF cur = <<>> THEN {} ELSE {cur})
    ELSE IF Head(text) = " "
         THEN (IF cur = <<>> THEN {} ELSE {cur}) \cup WordsFrom(Tail(text), <<>>)
         ELSE WordsFrom(Tail(text), Append(cur, Head(text)))

MissingAsClaimed(ms, fit, top_n, clean_resume) ==
    /\ Len(ms) = Min(top_n, Cardinality(JobOnly(fit)))
    /\ \A i \in DOMAIN ms : ms[i] \in JobOnly(fit)
    /\ \A i \in DOMAIN ms : \A k \in DOMAIN ms :
          i < k => ms[i] # ms[k] /\ JobWeight(fit, ms[i]) >= JobWeight(fit, ms[k])
    /\ \A w \in JobOnly(fit) \ Range(ms) :
          \A i \in DOMAIN ms : JobWeight(fit, ms[i]) >= JobWeight(fit, w)
    /\ \A i \in DOMAIN ms :
          /\ ms[i] \notin Range(Analyze(clean_resume))
          /\ ms[i] \notin WordsFrom(clean_resume, <<>>)
    /\ (Cardinality(JobOnly(fit)) <= top_n => Range(ms) = JobOnly(fit))

\* C14: get_missing_keywords returns the first top_n (or fewer) of the terms
\* with zero weight in the resume row and positive weight in the job row, by
\* descending job weight; none of them is a term or a word of the normalised
\* resume; when there are at most top_n such terms it returns them all.
C14_MissingKeywordsRanked ==
    \A t \in Threads :
        Returned(t, "get_missing_keywords")
        => /\ missing[t] # <<>>
           /\ MissingAsClaimed(missing[t][1], MissingFit(t), call[t].top_n,
                               _preprocess(call[t].resume_text))

\* more job-only terms than top_n, of different weights, while the resume has
\* terms of its own in common with the job
C14_MissingCutAtTopN ==
    \E t \in Threads :
        /\ Returned(t, "get_missing_keywords")
        /\ Cardinality(JobOnly(MissingFit(t))) > call[t].top_n
        /\ Len(missing[t][1]) = call[t].top_n
        /\ InBoth(MissingFit(t)) # {}
        /\ \E w \in JobOnly(MissingFit(t)) :
              JobWeight(MissingFit(t), w) < JobWeight(MissingFit(t), missing[t][1][1])

\* C15: for non-empty inputs, whenever the scoring fit_transform fails, by an
\* empty vocabulary or by any other exception, calculate_match_score returns
\* the "Could not extract meaningful content" record and does not raise.
C15_VectorizationFailureHandled ==
    \A t \in Threads :
        (/\ Ended(t, "calculate_match_score")
         /\ call[t].resume_text # <<>>
         /\ call[t].job_description # <<>>
         /\ trace[t].fits = 1)
        => /\ ~raised[t]
           /\ tfidf[t] = <<[score |-> 0, top_keywords |-> <<>>,
                            analysis |-> <<"Could not extract meaningful content for comparison.">>]>>

\* a string as _preprocess returns it: lower-case letters, digits and single
\* spaces, none at either end
IsNormalised(text) ==
    /\ \A i \in DOMAIN text : text[i] \in LowerLetters \cup Digits \cup {" "}
    /\ text # <<>> => text[1] # " " /\ text[Len(text)] # " "
    /\ \A i \in DOMAIN text : i > 1 /\ text[i] = " " => text[i - 1] # " "

\* a term: a word of two or more letters and digits, or two such words
\* with a space between them
IsTerm(w) ==
    /\ Len(w) >= 2
    /\ IsNormalised(w)
    /\ Cardinality({i \in DOMAIN w : w[i] = " "}) <= 1

IsTermList(seq) == \A i \in DOMAIN seq : IsTerm(seq[i])

\* C16: for every pair of strings, the empty one and those without a letter
\* or digit included, _preprocess returns a string, calculate_match_score
\* (its keyword extraction included) returns a record of score, top_keywords
\* and analysis, get_missing_keywords returns a list, and none of them raises.
C16_LexicalNeverRaises ==
    \A t \in Threads :
        /\ (Ended(t, "calculate_match_score") \/ Ended(t, "get_missing_keywords"))
           => /\ ~raised[t]
              /\ IsNormalised(_preprocess(call[t].resume_text))
              /\ IsNormalised(_preprocess(call[t].job_description))
        /\ Ended(t, "calculate_match_score")
           => /\ Len(tfidf[t]) = 1
              /\ DOMAIN tfidf[t][1] = {"score", "top_keywords", "analysis"}
              /\ tfidf[t][1].score \in 0..Pct(100)
              /\ IsTermList(tfidf[t][1].top_keywords)
              /\ Len(tfidf[t][1].analysis) \in {1, 3}
        /\ Ended(t, "get_missing_keywords")
           => /\ Len(missing[t]) = 1
              /\ IsTermList(missing[t][1])

\* get_missing_keywords returned the empty list for a resume without a
\* letter or digit and an empty job description
C16_NoContentGivesEmptyList ==
    \E t \in Threads :
        /\ Returned(t, "get_missing_keywords")
        /\ call[t].resume_text # <<>>
        /\ \A i \in DOMAIN call[t].resume_text : ~IsWordChar(call[t].resume_text[i])
        /\ ~IsBlank(call[t].resume_text)
        /\ call[t].job_description = <<>>
        /\ missing[t] = << <<>> >>

\* C17 as stated: only the model load can raise and only on the first use of
\* the model: a call that raises is the first one that invoked the
\* constructor.
C17_RaisesOnlyOnFirstUse ==
    \A t \in Threads :
        raised[t]
        => /\ call[t].fn \in {"calculate_semantic_match", "calculate_hybrid_match_score"}
           /\ trace[t].loads = 1
           /\ invoked = 1

\* C17 as amended: only the model load can raise and only while no model has
\* been built: a call that raises invoked the constructor, _model is still
\* None, and the lexical engine was not the one that raised; once a load
\* succeeded no later call raises.
C17_RaisesOnlyBeforeModelBuilt ==
    \A t \in Threads :
        raised[t]
        => /\ call[t].fn \in {"calculate_semantic_match", "calculate_hybrid_match_score"}
           /\ trace[t].loads = 1
           /\ trace[t].tfidf_calls = 0
           /\ constructed = 0
           /\ _model = 0

\* a second call raised in the model load after an earlier call had done so
C17_SecondLoadFailure ==
    \E t \in Threads :
        /\ raised[t]
        /\ pc[t] = "done"
        /\ trace[t].loads = 1
        /\ invoked = 2
        /\ constructed = 0

\* the call in progress invoked the constructor and got no model from it
LoadFailed(t) == trace[t].loads = 1 /\ fresh[t] = 0

\* C18: when loading the model fails, calculate_semantic_match and
\* calculate_hybrid_match_score end with the exception and return no record,
\* so the outcome differs from the zero-score records.
C18_LoadFailurePropagates ==
    \A t \in Threads :
        LoadFailed(t)
        => /\ pc[t] = "done"
           /\ raised[t]
           /\ call[t].fn \in {"calculate_semantic_match", "calculate_hybrid_match_score"}
           /\ semantic[t] = <<>>
           /\ tfidf[t] = <<>>
           /\ hybrid[t] = <<>>

\* calculate_hybrid_match_score ended by the exception of a failed load
C18_HybridEndedByLoadError ==
    \E t \in Threads :
        /\ Ended(t, "calculate_hybrid_match_score")
        /\ LoadFailed(t)
        /\ raised[t]

RECURSIVE Kept(_, _)
Kept(text, keep) ==
    IF text = <<>> THEN <<>>
    ELSE (IF Head(text) \in keep THEN <<Head(text)>> ELSE <<>>)
         \o Kept(Tail(text), keep)

\* the positions from i on of text whose character is in keep, in their order
RECURSIVE KeptAt(_, _, _)
KeptAt(text, i, keep) ==
    IF i > Len(text) THEN <<>>
    ELSE (IF text[i] \in keep THEN <<i>> ELSE <<>>) \o KeptAt(text, i + 1, keep)

AsciiAlnum == LowerLetters \cup Digits

NotSpace ==
    (LowerLetters \cup UpperLetters \cup Digits \cup Whitespace \cup Punctuation
     \cup PreprocessChars) \ {" "}

\* the letters and digits of out are those of the lowered text, and two of
\* them that follow each other are apart by one space in out unless they
\* are side by side in text
SameWords(from, to) ==
    /\ Len(from) = Len(to)
    /\ \A k \in 1..(Len(to) - 1) :
          to[k + 1] - to[k] = (IF from[k + 1] - from[k] = 1 THEN 1 ELSE 2)

PreprocessedFrom(text, out) ==
    /\ Kept(out, NotSpace) = Kept(Lowered(text), AsciiAlnum)
    /\ SameWords(KeptAt(Lowered(text), 1, AsciiAlnum), KeptAt(out, 1, NotSpace))

\* C21: _preprocess returns only lower-case ASCII letters, digits and single
\* spaces, every other character that is not whitespace having become a space,
\* with no two spaces in a row and none at either end; the empty string
\* gives the empty string; applying it twice gives what applying it once gives.
C21_PreprocessNormalises ==
    clean # <<>>
    => /\ IsNormalised(clean[1].ret)
       /\ PreprocessedFrom(clean[1].text, clean[1].ret)
       /\ (clean[1].text = <<>> => clean[1].ret = <<>>)
       /\ _preprocess(clean[1].ret) = clean[1].ret

\* an upper-case letter, a letter outside ASCII, a tab and trailing
\* whitespace have given two words with one space between them
C21_MixedTextNormalised ==
    /\ clean # <<>>
    /\ clean[1].text = <<"P", "é", "\t", "3">>
    /\ clean[1].ret = <<"p", " ", "3">>

\* the fitted scoring vectorizer of a call: max_features=1000, sublinear tf
ScoringFit(t) ==
    fit_transform(<<_preprocess(call[t].resume_text),
                    _preprocess(call[t].job_description)>>, 1000, TRUE)

\* C22: calculate_match_score(x, x) returns a score of at least 95 for every
\* text x whose normalised form has a term left after stop-word removal.
C22_IdenticalTextsScoreHigh ==
    \A t \in Threads :
        (/\ Ended(t, "calculate_match_score")
         /\ call[t].resume_text = call[t].job_description
         /\ ~ScoringFit(t).ValueError)
        => /\ ~raised[t]
           /\ tfidf[t] # <<>>
           /\ tfidf[t][1].score >= Pct(95)

\* a text of twelve terms, one word twice, compared with itself
C22_LongTextAgainstItself ==
    \E t \in Threads :
        /\ Returned(t, "calculate_match_score")
        /\ call[t].resume_text = call[t].job_description
        /\ Len(ScoringFit(t).feature_names) = 12
        /\ tfidf[t][1].score >= Pct(95)

\* the @cached call last made, if there is one
CacheCalled == cached_call # <<>>

TheCall == cached_call[1]

\* the read and the write of the call were answered by the server
RedisHealthy(c) == c.client = "Redis" /\ ~c.read_error /\ ~c.write_error

\* the call found nothing it could use under its key and went on to the function
IsMiss(c) == c.client = "Redis" /\ ~c.read_error /\ c.recorded = "miss"

\* the caller got what the function did, and no error of the cache
FunctionOutcomeReturned(c) ==
    /\ c.executed = 1
    /\ c.outcome.kind = "raise" => (c.raised = <<c.outcome.value>> /\ c.returned = <<>>)
    /\ c.outcome.kind # "raise" => (c.returned = <<c.outcome>> /\ c.raised = <<>>)

\* C23 (as stated): with Redis available, when the key of a call to a @cached
\* function holds a cached value, the function is not executed and the cached
\* value is returned.
C23_CachedValueReturned ==
    CacheCalled =>
        LET c == TheCall
        IN  (c.client = "Redis" /\ ~c.read_error /\ c.found # <<>>) =>
                /\ c.executed = 0
                /\ c.returned = <<[kind |-> "str", value |-> c.found[1]]>>

C25_CacheFailuresInvisible ==
    CacheCalled =>
        LET c == TheCall
        IN  (c.client = "None" \/ c.read_error \/ c.write_error) =>
                FunctionOutcomeReturned(c)

\* a call whose read and whose write both raised returned the function's result
C25_ReadAndWriteFailed ==
    /\ CacheCalled
    /\ TheCall.client = "Redis"
    /\ TheCall.read_error
    /\ TheCall.write_error
    /\ TheCall.returned = <<[kind |-> "str", value |-> "a"]>>

\* C28 (as stated): with Redis healthy, after a call returned a string s on a
\* miss, the next call with the same arguments made before the key expires
\* returns s without executing the function, for every s.
C28_RepeatedCallServedFromCache ==
    [][ ( /\ CacheCalled
          /\ cached_call' # cached_call
          /\ IsMiss(TheCall) /\ RedisHealthy(TheCall)
          /\ TheCall.outcome.kind = "str"
          /\ TheCall.key \in DOMAIN store
          /\ cached_call'[1].key = TheCall.key
          /\ RedisHealthy(cached_call'[1]) )
        => ( /\ cached_call'[1].executed = 0
             /\ cached_call'[1].returned = TheCall.returned ) ]_vars

\* thread t has made a call through a tracking wrapper, and the call is over
TrackedDone(t) == tracked[t].at = "idle" /\ tracked[t].wrapper # "none"

\* C26 (as stated): every call through track_api_call or track_gemini_call,
\* whether it returns or raises, increments the request counter once and
\* observes latency once, with status 'error' if and only if the wrapped
\* function raised; the exception is re-raised, a result is passed through.
C26_EveryCallCountedByOutcome ==
    \A t \in Threads :
        TrackedDone(t) =>
            LET c == tracked[t]
                outcome == c.outcome[1]
            IN  /\ Len(c.counted) = 1
                /\ c.observed = 1
                /\ (c.counted[1] = "error") <=> (outcome.kind = "raise")
                /\ outcome.kind = "raise" =>
                       (c.reraised = <<outcome.value>> /\ c.returned = <<>>)
                /\ outcome.kind = "return" =>
                       (c.returned = <<outcome.value>> /\ c.reraised = <<>>)

\* C29: in every interleaving the gauge equals the number of wrapped calls in
\* flight; each call increments it once on entry and decrements it once on
\* exit, whether it returns or raises; it is never negative and is back at
\* its initial value when all calls are over.
C29_GaugeCountsInFlight ==
    /\ active_requests = Cardinality(InFlight)
    /\ active_requests >= 0
    /\ InFlight = {} => active_requests = 0
    /\ \A t \in Threads :
           /\ tracked[t].at # "idle" => (tracked[t].incs = 1 /\ tracked[t].decs = 0)
           /\ (TrackedDone(t) /\ tracked[t].wrapper = "api") =>
                  (tracked[t].incs = 1 /\ tracked[t].decs = 1)

\* two calls were in flight together, one raised and one returned, and both
\* are over
C29_ConcurrentCallsOver ==
    /\ InFlight = {}
    /\ active_requests = 0
    /\ Counted(api_requests_total) >= 2
    /\ \E t, u \in Threads :
           /\ TrackedDone(t) /\ tracked[t].wrapper = "api"
           /\ TrackedDone(u) /\ tracked[u].wrapper = "api"
           /\ tracked[t].outcome[1].kind = "raise"
           /\ tracked[u].outcome[1].kind = "return"

\* the attempts the claim counts as failed
FailedAsClaimed(response) ==
    \/ response.kind \in {"error", "none", "blocked"}
    \/ (response.kind = "text" /\ response.text = <<>>)

AllFailed(attempts) == \A i \in 1..Len(attempts) : FailedAsClaimed(attempts[i])

\* what holds of _call_gemini at every moment of a call
GeminiCallBounded ==
    /\ Len(gemini.attempts) <= MAX_RETRIES
    /\ gemini.at = "attempt" =>
           (AllFailed(gemini.attempts) /\ Len(gemini.attempts) < MAX_RETRIES)
    /\ gemini.at = "done" =>
           LET n == Len(gemini.attempts)
           IN  /\ gemini.ret # <<>> =>
                      /\ n >= 1
                      /\ ~FailedAsClaimed(gemini.attempts[n])
                      /\ AllFailed(SubSeq(gemini.attempts, 1, n - 1))
                      /\ gemini.ret = <<Strip(gemini.attempts[n].text)>>
                      /\ gemini.raised = <<>>
               /\ (gemini.raised = <<"RuntimeError">>) <=>
                      (n = MAX_RETRIES /\ AllFailed(gemini.attempts))
               /\ (gemini.ret = <<>>) <=> (gemini.raised # <<>>)

\* C27: _call_gemini makes at most MAX_RETRIES attempts one after another,
\* returns the stripped text of the first attempt with a non-empty response
\* and stops there, counts an exception or an empty or blocked response as a
\* failed attempt, raises RuntimeError exactly when all MAX_RETRIES attempts
\* failed, and always ends.
C27_CallGeminiRetriesAndEnds ==
    /\ []GeminiCallBounded
    /\ (gemini.at = "attempt") ~> (gemini.at = "done")

\* the third attempt succeeded after an exception and an empty response
C27_ThirdAttemptReturned ==
    /\ gemini.at = "done"
    /\ Len(gemini.attempts) = MAX_RETRIES
    /\ gemini.attempts[1].kind = "error"
    /\ gemini.attempts[2] = [kind |-> "text", text |-> <<>>]
    /\ gemini.ret = << <<"o", "k">> >>
    /\ gemini.attempts[3].text = <<" ", "o", "k", "\n">>
    /\ gemini.slept = 6

\* what the claim expects of an AI step: its text, or the fallback
OrFallback(outcome, fallback) == IF outcome.kind = "raise" THEN fallback ELSE outcome.value

\* generate_pdf was called and returned
PdfSucceeded(h) ==
    /\ h.o_pdf.kind = "return"
    /\ \E i \in 1..Len(h.response.ran) : h.response.ran[i] = "generate_pdf"

\* the steps of a request, in order
StepsFor(job_description) ==
    IF job_description = ""
    THEN <<"generate_resume_summary", "optimize_skills", "enhance_experience",
           "generate_pdf">>
    ELSE <<"generate_resume_summary", "optimize_skills", "enhance_experience",
           "calculate_match_score", "generate_recommendations", "generate_pdf">>

AiSteps ==
    {"generate_resume_summary", "optimize_skills", "enhance_experience",
     "generate_recommendations"}

\* C30: generate_resume answers with a ResumeResponse whenever generate_pdf
\* succeeds, whichever of the four AI functions raise: a failing AI step is
\* replaced by its fallback, the later steps still run, and no AI failure
\* becomes an HTTP error.
C30_AiFailuresFallBack ==
    handled # <<>> =>
        LET h == handled[1]
            r == h.response
            d == h.data
            skills_text == IF d.skills = "" THEN "General professional skills" ELSE d.skills
            experience_text ==
                IF d.experience = "" THEN "Professional experience" ELSE d.experience
            target_text == IF d.target_role = "" THEN "Professional" ELSE d.target_role
        IN  /\ r.http # 200 => (r.failed # <<>> /\ r.failed[1] \notin AiSteps)
            /\ (h.o_match.kind = "return" \/ d.job_description = "") =>
                   r.ran = StepsFor(d.job_description)
            /\ PdfSucceeded(h) =>
                   /\ r.http = 200
                   /\ r.ran = StepsFor(d.job_description)
                   /\ r.body[1].summary =
                          OrFallback(h.o_summary,
                                     <<"Experienced professional seeking a ", target_text,
                                       " role. ", "Skilled in ", skills_text, ". ",
                                       experience_text>>)
                   /\ r.body[1].optimized_skills = OrFallback(h.o_skills, <<skills_text>>)
                   /\ r.body[1].enhanced_experience =
                          OrFallback(h.o_experience, <<experience_text>>)
                   /\ r.body[1].pdf_path = h.o_pdf.value
                   /\ d.job_description # "" =>
                          /\ r.body[1].recommendations =
                                 OrFallback(h.o_rec, FallbackRecommendations)
                          /\ r.body[1].job_match_score = h.o_match.value.score
                   /\ d.job_description = "" =>
                          /\ r.body[1].recommendations = <<>>
                          /\ r.body[1].job_match_score = 0

\* all four AI functions raised and the request was answered with the fallbacks
C30_AllAiStepsFailed ==
    /\ handled # <<>>
    /\ handled[1].o_summary.kind = "raise"
    /\ handled[1].o_skills.kind = "raise"
    /\ handled[1].o_experience.kind = "raise"
    /\ handled[1].o_rec.kind = "raise"
    /\ handled[1].o_summary.exc = "RuntimeError"
    /\ handled[1].o_skills.exc = "ValueError"
    /\ handled[1].data.job_description # ""
    /\ handled[1].response.http = 200
    /\ handled[1].response.body[1].recommendations = FallbackRecommendations
    /\ handled[1].response.body[1].job_match_score = Pct(42)

====
